---- MODULE Spec2Model ----
(***************************************************************************)
(* A model of ldlinkpython: the request dispatchers (http.request,         *)
(* LDlinkClient.request, ldmatrix._request_json), the endpoint operations  *)
(* built on them (ldproxy, ldmatrix, ldpair) and their helpers.            *)
(*                                                                         *)
(* Python strings are sequences of one-character strings.  Optional[str]   *)
(* is a record [none, v].  A function that returns or raises is a record   *)
(* [ok, val, exc].                                                         *)
(***************************************************************************)
EXTENDS Integers, Sequences, FiniteSets, TLC

\* ------------------------------------------------------------------ bounds

\* Longest token string enumerated for token resolution.
MaxTokLen == 2

\* Number of concurrent caller threads.
NThreads == 2

\* Most rows below the header of a generated table or matrix.
MaxLines == 2

\* Longest text enumerated for JSON decoding.
MaxJsonLen == 4

\* Most identifiers of a generated identifier input.
MaxIds == 2

\* ----------------------------------------------------------------- strings

\* Characters str.strip() removes.
Whitespace == {" ", "\t", "\n", "\r"}

None == [none |-> TRUE, v |-> <<>>]

Some(s) == [none |-> FALSE, v |-> s]

SeqsUpTo(A, n) == UNION {[1..k -> A] : k \in 0..n}

RECURSIVE lstrip(_)
lstrip(s) == IF s # <<>> /\ Head(s) \in Whitespace THEN lstrip(Tail(s)) ELSE s

RECURSIVE rstrip(_)
rstrip(s) ==
  IF s # <<>> /\ s[Len(s)] \in Whitespace THEN rstrip(SubSeq(s, 1, Len(s) - 1)) ELSE s

\* str.strip()
strip(s) == rstrip(lstrip(s))

\* Python truthiness of an Optional[str]: None and "" are falsy.
Truthy(o) == ~o.none /\ o.v # <<>>

\* Python `a or b` on Optional[str].
PyOr(a, b) == IF Truthy(a) THEN a ELSE b

Ok(v) == [ok |-> TRUE, val |-> v, exc |-> "none"]

Raise(e) == [ok |-> FALSE, val |-> <<>>, exc |-> e]

\* ------------------------------------------------------- token resolution

\* validators.ensure_token(token), with os.getenv("LDLINK_TOKEN") = env.
ensure_token(token, env) ==
  IF ~token.none
  THEN IF strip(token.v) = <<>> THEN Raise("TokenMissingError") ELSE Ok(strip(token.v))
  ELSE IF env.none \/ strip(env.v) = <<>>
       THEN Raise("TokenMissingError")
       ELSE Ok(strip(env.v))

\* endpoints.ldmatrix._get_token(token)
_get_token(token, env) ==
  LET tok == PyOr(token, env)
  IN IF ~Truthy(tok) THEN Raise("ValueError") ELSE Ok(tok.v)

\* LDlinkClient.__init__ stores `token or os.getenv(...)`; LDlinkClient.request
\* raises ValueError when the stored token is falsy.
client_token(token, env) ==
  LET tok == PyOr(token, env)
  IN IF ~Truthy(tok) THEN Raise("ValueError") ELSE Ok(tok.v)

\* The three token resolvers of the library.
Resolvers == {"ensure_token", "_get_token", "client_token"}

Resolve(fn, token, env) ==
  CASE fn = "ensure_token" -> ensure_token(token, env)
    [] fn = "_get_token" -> _get_token(token, env)
    [] fn = "client_token" -> client_token(token, env)

\* ----------------------------------------------------------- more strings

UpperChars == <<"A","B","C","D","E","F","G","H","I","J","K","L","M",
                "N","O","P","Q","R","S","T","U","V","W","X","Y","Z">>

LowerChars == <<"a","b","c","d","e","f","g","h","i","j","k","l","m",
                "n","o","p","q","r","s","t","u","v","w","x","y","z">>

LowerChar(c) ==
  IF \E i \in DOMAIN UpperChars : UpperChars[i] = c
  THEN LowerChars[CHOOSE i \in DOMAIN UpperChars : UpperChars[i] = c]
  ELSE c

\* str.lower()
lower(s) == [i \in 1..Len(s) |-> LowerChar(s[i])]

\* sep.join(parts)
RECURSIVE join(_, _)
join(parts, sep) ==
  IF parts = <<>> THEN <<>>
  ELSE IF Len(parts) = 1 THEN parts[1]
  ELSE LET h == Len(parts) \div 2
       IN join(SubSeq(parts, 1, h), sep) \o sep \o join(SubSeq(parts, h + 1, Len(parts)), sep)

\* s.replace(c, " ") for every c in chars
ReplaceWithSpace(s, chars) == [i \in 1..Len(s) |-> IF s[i] \in chars THEN " " ELSE s[i]]

\* s.split(sep) for a one-character sep: the pieces between separators, empty
\* pieces included.
RECURSIVE split(_, _)
split(s, sep) ==
  IF \A i \in 1..Len(s) : s[i] # sep THEN <<s>>
  ELSE LET k == CHOOSE i \in 1..Len(s) : s[i] = sep /\ \A j \in 1..(i - 1) : s[j] # sep
       IN <<SubSeq(s, 1, k - 1)>> \o split(SubSeq(s, k + 1, Len(s)), sep)

\* [f(x) for x in xs if keep(x)] with f = strip and keep = non-blank
StripNonBlank(xs) ==
  LET kept == SelectSeq(xs, LAMBDA x : strip(x) # <<>>)
  IN [i \in 1..Len(kept) |-> strip(kept[i])]

\* A str-or-list argument.
SV(s) == [isList |-> FALSE, s |-> s, l |-> <<>>]

LV(l) == [isList |-> TRUE, s |-> <<>>, l |-> l]

\* String literals of the source.
s_grch37 == <<"g","r","c","h","3","7">>

s_grch38 == <<"g","r","c","h","3","8">>

s_r2 == <<"r","2">>

s_d == <<"d">>

s_dataframe == <<"d","a","t","a","f","r","a","m","e">>

s_raw == <<"r","a","w">>

s_auto == <<"a","u","t","o">>

s_get == <<"g","e","t">>

s_post == <<"p","o","s","t">>

s_table == <<"t","a","b","l","e">>

s_text == <<"t","e","x","t">>

s_CEU == <<"C","E","U">>

s_YRI == <<"Y","R","I">>

s_rs1 == <<"r","s","1">>

s_rs2 == <<"r","s","2">>

s_rs3 == <<"r","s","3">>

s_plus == <<"+">>

\* ------------------------------------------------------------- validators

\* validators.validate_genome_build(build)
validate_genome_build(build) ==
  LET v == lower(strip(build))
  IN IF v \notin {s_grch37, s_grch38} THEN Raise("ValidationError") ELSE Ok(v)

\* The characters of validators._SPLIT_SNPS_RE = [,\s+;|]+
_SPLIT_SNPS_RE == Whitespace \cup {",", "+", ";", "|"}

\* re.compile("[...]+").split(s) for a class of characters: the pieces
\* between the maximal runs of characters of the class.
RECURSIVE re_split(_, _)
re_split(s, class) ==
  IF \A i \in 1..Len(s) : s[i] \notin class THEN <<s>>
  ELSE LET k == CHOOSE i \in 1..Len(s) : s[i] \in class /\ \A j \in 1..(i - 1) : s[j] \notin class
           e == CHOOSE j \in k..Len(s) :
                  /\ \A x \in k..j : s[x] \in class
                  /\ j = Len(s) \/ s[j + 1] \notin class
       IN <<SubSeq(s, 1, k - 1)>> \o re_split(SubSeq(s, e + 1, Len(s)), class)

\* validators.normalize_snps(snps) of a str or a list of str
normalize_snps(snps) ==
  LET items == IF snps.isList THEN StripNonBlank(snps.l)
               ELSE IF strip(snps.s) = <<>> THEN <<>>
               ELSE StripNonBlank(re_split(strip(snps.s), _SPLIT_SNPS_RE))
  IN IF items = <<>> THEN Raise("ValidationError") ELSE Ok(items)

\* endpoints.ldmatrix._validate_choice(name, value, allowed)
_validate_choice(value, allowed) ==
  LET v == strip(value)
      v_lower == lower(v)
  IN IF v = <<>> THEN Raise("ValueError")
     ELSE IF \A a \in allowed : lower(a) # v_lower THEN Raise("ValueError")
     ELSE Ok(CHOOSE a \in allowed : lower(a) = v_lower)

\* endpoints.ldmatrix._normalize_snps(snps)
_normalize_snps(snps) ==
  LET parts == IF snps.isList
               THEN StripNonBlank(snps.l)
               ELSE StripNonBlank(split(ReplaceWithSpace(snps.s, {"\n", "\r", "\t", ","}), " "))
  IN IF parts = <<>> THEN Raise("ValueError") ELSE Ok(parts)

\* endpoints.ldproxy._normalize_pop(pop)
_normalize_pop(pop) ==
  IF ~pop.isList
  THEN IF strip(pop.s) = <<>> THEN Raise("ValueError") ELSE Ok(strip(pop.s))
  ELSE LET pops == StripNonBlank(pop.l)
       IN IF pops = <<>> THEN Raise("ValueError") ELSE Ok(join(pops, s_plus))

\* _normalize_pair without the check for empty identifiers.
_normalize_pair_noblank(a, b) ==
  IF a.none \/ b.none THEN Raise("ValueError")
  ELSE Ok(<<strip(a.v), strip(b.v)>>)

\* endpoints.ldpair._normalize_pair(a, b)
_normalize_pair(a, b) ==
  IF a.none \/ b.none THEN Raise("ValueError")
  ELSE IF strip(a.v) = <<>> \/ strip(b.v) = <<>> THEN Raise("ValueError")
  ELSE Ok(<<strip(a.v), strip(b.v)>>)

\* endpoints.ldpair._normalize_snp_pairs(snp_pairs): a list of tuples of strings
_normalize_snp_pairs(snp_pairs) ==
  IF \E i \in 1..Len(snp_pairs) :
       /\ \A j \in 1..(i - 1) : Len(snp_pairs[j]) = 2
                                /\ strip(snp_pairs[j][1]) # <<>>
                                /\ strip(snp_pairs[j][2]) # <<>>
       /\ \/ Len(snp_pairs[i]) # 2
          \/ strip(snp_pairs[i][1]) = <<>>
          \/ strip(snp_pairs[i][2]) = <<>>
  THEN Raise("ValueError")
  ELSE IF Len(snp_pairs) = 0 THEN Raise("ValueError")
  ELSE Ok([i \in 1..Len(snp_pairs) |-> <<strip(snp_pairs[i][1]), strip(snp_pairs[i][2])>>])

\* ----------------------------------------------------------- Python values

\* A Python value is a tagged record: a str (its characters), an int (its
\* decimal digits), a list (its items), a dict (a function from its keys) or
\* a pandas DataFrame.
PyStr(s) == [kind |-> "str", v |-> s]

PyNum(digits) == [kind |-> "num", v |-> digits]

PyList(items) == [kind |-> "list", v |-> items]

PyDict(d) == [kind |-> "dict", v |-> d]

PyTable(t) == [kind |-> "table", v |-> t]

\* ------------------------------------------------------------------- text

\* str.splitlines() for the line terminator "\n": no empty last line.
splitlines(text) ==
  LET pieces == split(text, "\n")
  IN IF pieces[Len(pieces)] = <<>> THEN SubSeq(pieces, 1, Len(pieces) - 1) ELSE pieces

\* [ln for ln in text.splitlines() if ln.strip() != ""]
NonBlankLines(text) == SelectSeq(splitlines(text), LAMBDA ln : strip(ln) # <<>>)

\* parsing._strip_blank_lines(text)
_strip_blank_lines(text) == join(NonBlankLines(text), <<"\n">>)

Digits == {"0", "1", "2", "3", "4", "5", "6", "7", "8", "9"}

\* \d+
IsDigits(s) == s # <<>> /\ \A i \in 1..Len(s) : s[i] \in Digits

\* \d*
AllDigits(s) == \A i \in 1..Len(s) : s[i] \in Digits

\* (?:\d+(?:\.\d*)?|\.\d+)
IsMantissa(m) ==
  \/ IsDigits(m)
  \/ \E k \in 1..Len(m) :
       /\ m[k] = "."
       /\ \/ IsDigits(SubSeq(m, 1, k - 1)) /\ AllDigits(SubSeq(m, k + 1, Len(m)))
          \/ k = 1 /\ IsDigits(SubSeq(m, 2, Len(m)))

\* (?:[eE][+-]?\d+)?
IsExponent(x) ==
  \/ x = <<>>
  \/ /\ x[1] \in {"e", "E"}
     /\ LET r == Tail(x)
        IN IsDigits(IF r # <<>> /\ r[1] \in {"+", "-"} THEN Tail(r) ELSE r)

\* parsing._NUMERIC_TOKEN_RE.match(tok):
\* ^[+-]?(?:\d+(?:\.\d*)?|\.\d+)(?:[eE][+-]?\d+)?$
_NUMERIC_TOKEN_RE(tok) ==
  LET t == IF tok # <<>> /\ tok[1] \in {"+", "-"} THEN Tail(tok) ELSE tok
  IN \E k \in 0..Len(t) : IsMantissa(SubSeq(t, 1, k)) /\ IsExponent(SubSeq(t, k + 1, Len(t)))

\* ch.isalpha() for ASCII
isalpha(ch) == \E i \in DOMAIN UpperChars : UpperChars[i] = ch \/ LowerChars[i] = ch

\* tok.lower().startswith("rs") and tok[2:].isdigit()
LooksLikeRsId(tok) ==
  /\ Len(tok) >= 2
  /\ lower(SubSeq(tok, 1, 2)) = <<"r", "s">>
  /\ IsDigits(SubSeq(tok, 3, Len(tok)))

\* parsing._looks_like_header(first_line)
_looks_like_header(first_line) ==
  LET tokens == StripNonBlank(split(first_line, "\t"))
  IN IF tokens = <<>> THEN TRUE
     ELSE IF \E i \in 1..Len(tokens) : \E k \in 1..Len(tokens[i]) : isalpha(tokens[i][k])
       THEN TRUE
     ELSE IF \E i \in 1..Len(tokens) : LooksLikeRsId(tokens[i]) THEN TRUE
     ELSE IF \A i \in 1..Len(tokens) : _NUMERIC_TOKEN_RE(tokens[i]) THEN FALSE
     ELSE TRUE

\* ------------------------------------------------------------------- JSON

\* parsing.is_json_response(text): _JSON_LEADING_RE = ^\s*[\{\[]
is_json_response(text) ==
  LET t == lstrip(text) IN t # <<>> /\ t[1] \in {"{", "["}

JsonFail == [ok |-> FALSE, val |-> PyList(<<>>), next |-> 0]

JsonAt(val, next) == [ok |-> TRUE, val |-> val, next |-> next]

\* json.decoder.WHITESPACE.match(s, i).end()
RECURSIVE SkipWs(_, _)
SkipWs(s, i) == IF i <= Len(s) /\ s[i] \in Whitespace THEN SkipWs(s, i + 1) ELSE i

\* The end of the run of digits that starts at i.
RECURSIVE DigitsEnd(_, _)
DigitsEnd(s, i) == IF i <= Len(s) /\ s[i] \in Digits THEN DigitsEnd(s, i + 1) ELSE i

RECURSIVE scan_once(_, _)

RECURSIVE JSONArray(_, _, _)

\* json.scanner.py_make_scanner: the value that starts at index i of a text
\* of brackets, braces, commas, digits and whitespace (no strings, literals,
\* fractions or exponents).
scan_once(s, i) ==
  IF i > Len(s) THEN JsonFail
  ELSE IF s[i] = "{"
    THEN LET j == SkipWs(s, i + 1)
         IN IF j <= Len(s) /\ s[j] = "}" THEN JsonAt(PyDict(<<>>), j + 1) ELSE JsonFail
  ELSE IF s[i] = "["
    THEN LET j == SkipWs(s, i + 1)
         IN IF j <= Len(s) /\ s[j] = "]" THEN JsonAt(PyList(<<>>), j + 1)
            ELSE JSONArray(s, j, <<>>)
  ELSE IF s[i] = "0" THEN JsonAt(PyNum(<<"0">>), i + 1)
  ELSE IF s[i] \in Digits
    THEN JsonAt(PyNum(SubSeq(s, i, DigitsEnd(s, i) - 1)), DigitsEnd(s, i))
  ELSE JsonFail

\* json.decoder.JSONArray from the first value on: values separated by
\* commas up to the closing bracket.
JSONArray(s, i, acc) ==
  LET v == scan_once(s, i)
      j == SkipWs(s, v.next)
  IN IF ~v.ok THEN JsonFail
     ELSE IF j > Len(s) THEN JsonFail
     ELSE IF s[j] = "]" THEN JsonAt(PyList(Append(acc, v.val)), j + 1)
     ELSE IF s[j] = "," THEN JSONArray(s, SkipWs(s, j + 1), Append(acc, v.val))
     ELSE JsonFail

\* json.loads(text): JSONDecodeError unless one value spans the text up to
\* whitespace.
json_loads(text) ==
  LET r == scan_once(text, SkipWs(text, 1))
  IN IF r.ok /\ SkipWs(text, r.next) = Len(text) + 1 THEN Ok(r.val)
     ELSE Raise("JSONDecodeError")

\* ----------------------------------------------------------------- tables

\* A pandas DataFrame: the column labels, the row labels (None for the
\* default RangeIndex) and the rows of cells.
DataFrame(columns, index, rows) == [columns |-> columns, index |-> index, rows |-> rows]

\* df.shape
shape(df) == <<Len(df.rows), Len(df.columns)>>

\* line.split("\t"): the fields of one line of delimited text.
Fields(line) == split(line, "\t")

\* pandas.read_csv is modelled on rectangular grids only: texts whose lines
\* all have as many fields as the first one.

DigitChars == <<"0", "1", "2", "3", "4", "5", "6", "7", "8", "9">>

\* str(i) for 0 <= i <= 9
DigitStr(i) == <<DigitChars[i + 1]>>

\* int(c) for a digit character
DigitVal(c) == (CHOOSE i \in DOMAIN DigitChars : DigitChars[i] = c) - 1

\* pandas names an empty header cell at position i (from 0) "Unnamed: i".
Unnamed(i) == <<"U", "n", "n", "a", "m", "e", "d", ":", " ">> \o DigitStr(i)

\* The column names pandas.read_csv(header=0) makes of a header line: empty
\* cells are named by position, a repeated name gets the suffix ".k" at its
\* k-th repetition.
MangleHeader(names) ==
  LET named == [i \in 1..Len(names) |-> IF names[i] = <<>> THEN Unnamed(i - 1) ELSE names[i]]
      seen(i) == Cardinality({j \in 1..(i - 1) : named[j] = named[i]})
  IN [i \in 1..Len(named) |->
        IF seen(i) = 0 THEN named[i] ELSE named[i] \o <<".">> \o DigitStr(seen(i))]

\* pandas.read_csv(StringIO(text), sep="\t", header=0, dtype=str) of a
\* rectangular grid of lines: the first line names the columns, every other
\* line is a row.
read_csv_header(lines) ==
  DataFrame(MangleHeader(Fields(lines[1])), None,
            [i \in 1..(Len(lines) - 1) |-> Fields(lines[i + 1])])

\* pandas.read_csv(..., header=None): every line is a row.
read_csv_noheader(lines) ==
  DataFrame([i \in 1..Len(Fields(lines[1])) |-> DigitStr(i - 1)], None,
            [i \in 1..Len(lines) |-> Fields(lines[i])])

\* Strings pandas.read_csv reads as missing when keep_default_na is left on.
STR_NA_VALUES ==
  {<<>>, <<"N", "A">>, <<"N", "a", "N">>, <<"n", "a", "n">>, <<"n", "u", "l", "l">>,
   <<"N", "U", "L", "L">>, <<"N", "o", "n", "e">>, <<"N", "/", "A">>, <<"n", "/", "a">>}

\* A missing row label.
NaNLabel == <<"NaN">>

\* A number m * 10^e in normal form (m not divisible by 10, or m = e = 0),
\* and the missing number.
Number(m, e) == [nan |-> FALSE, m |-> m, e |-> e]

NaN == [nan |-> TRUE, m |-> 0, e |-> 0]

RECURSIVE Normal(_, _)
Normal(m, e) ==
  IF m = 0 THEN Number(0, 0)
  ELSE IF m % 10 = 0 THEN Normal(m \div 10, e + 1)
  ELSE Number(m, e)

\* int(digits), 0 for no digits
RECURSIVE DigitsValue(_)
DigitsValue(s) ==
  IF s = <<>> THEN 0
  ELSE 10 * DigitsValue(SubSeq(s, 1, Len(s) - 1)) + DigitVal(s[Len(s)])

\* The value of a decimal literal that matches _NUMERIC_TOKEN_RE.
LiteralValue(tok) ==
  LET neg == tok[1] = "-"
      t == IF tok[1] \in {"+", "-"} THEN Tail(tok) ELSE tok
      epos == {k \in 1..Len(t) : t[k] \in {"e", "E"}}
      mant == IF epos = {} THEN t ELSE SubSeq(t, 1, (CHOOSE k \in epos : TRUE) - 1)
      ex == IF epos = {} THEN <<>> ELSE SubSeq(t, (CHOOSE k \in epos : TRUE) + 1, Len(t))
      exneg == ex # <<>> /\ ex[1] = "-"
      exdig == IF ex # <<>> /\ ex[1] \in {"+", "-"} THEN Tail(ex) ELSE ex
      dot == {k \in 1..Len(mant) : mant[k] = "."}
      ip == IF dot = {} THEN mant ELSE SubSeq(mant, 1, (CHOOSE k \in dot : TRUE) - 1)
      fp == IF dot = {} THEN <<>> ELSE SubSeq(mant, (CHOOSE k \in dot : TRUE) + 1, Len(mant))
      m == DigitsValue(ip \o fp)
      e == (IF exneg THEN 0 - DigitsValue(exdig) ELSE DigitsValue(exdig)) - Len(fp)
  IN Normal(IF neg THEN 0 - m ELSE m, e)

\* pandas.to_numeric(cell, errors="coerce") of a str cell: a decimal literal
\* is its value, a missing cell and any other text is NaN.
to_numeric(cell) ==
  IF cell # NaNLabel /\ _NUMERIC_TOKEN_RE(strip(cell)) THEN LiteralValue(strip(cell)) ELSE NaN

\* ---------------------------------------------------------------- parsing

\* parsing.parse_tsv(text), for text whose non-blank lines form a
\* rectangular grid (pandas.read_csv then never fails).
parse_tsv(text) ==
  LET cleaned == _strip_blank_lines(text)
      lines == splitlines(cleaned)
      has_header == _looks_like_header(lines[1])
      df == IF has_header THEN read_csv_header(lines) ELSE read_csv_noheader(lines)
  IN IF strip(cleaned) = <<>> THEN Raise("ParseError")
     ELSE IF has_header THEN Ok(PyTable(df))
     ELSE Ok(PyTable(DataFrame([i \in 1..Len(df.columns) |-> <<"V">> \o DigitStr(i)],
                               df.index, df.rows)))

\* parsing.parse_matrix(text): read_csv(header=0, index_col=0); the first
\* column becomes the row labels. On a rectangular grid no column is left
\* named "Unnamed: 0", so the set_index of lines 117-121 is never taken.
parsing_parse_matrix(text) ==
  LET cleaned == _strip_blank_lines(text)
      df == read_csv_header(splitlines(cleaned))
  IN IF strip(cleaned) = <<>> THEN Raise("ParseError")
     ELSE Ok(PyTable(DataFrame(Tail(df.columns),
                               Some([i \in 1..Len(df.rows) |-> df.rows[i][1]]),
                               [i \in 1..Len(df.rows) |-> Tail(df.rows[i])])))

\* coerce_response that hands undecodable JSON-looking text back as text.
coerce_response_lenient(text, kind) ==
  IF kind \notin {"tsv", "matrix", "raw", "json_auto"} THEN Raise("ValueError")
  ELSE IF kind = "raw" THEN Ok(PyStr(text))
  ELSE IF kind = "tsv" THEN parse_tsv(text)
  ELSE IF kind = "matrix" THEN parsing_parse_matrix(text)
  ELSE IF is_json_response(text) /\ json_loads(text).ok THEN json_loads(text)
  ELSE Ok(PyStr(text))

\* parsing.coerce_response(text, kind)
coerce_response(text, kind) ==
  IF kind \notin {"tsv", "matrix", "raw", "json_auto"} THEN Raise("ValueError")
  ELSE IF kind = "raw" THEN Ok(PyStr(text))
  ELSE IF kind = "tsv" THEN parse_tsv(text)
  ELSE IF kind = "matrix" THEN parsing_parse_matrix(text)
  ELSE IF is_json_response(text)
    THEN (IF json_loads(text).ok THEN json_loads(text) ELSE Raise("ParseError"))
  ELSE Ok(PyStr(text))

\* ---------------------------------------------------------------- parsers

\* A raise with the text of its message.
RaiseMsg(e, msg) == [ok |-> FALSE, val |-> <<>>, exc |-> e, msg |-> msg]

\* parsers._parse_tsv_matrix(text), for text whose non-blank lines form a
\* rectangular grid: read_csv(header=0, dtype=str), set_index(first column),
\* to_numeric(errors="coerce"), then the check of the shape.
_parse_tsv_matrix(text) ==
  LET lines == NonBlankLines(text)
      df == read_csv_header(lines)
      label(c) == IF c \in STR_NA_VALUES THEN NaNLabel ELSE c
      cell(c) == IF c \in STR_NA_VALUES THEN NaN ELSE to_numeric(c)
      out == DataFrame(Tail(df.columns),
                       Some([i \in 1..Len(df.rows) |-> label(df.rows[i][1])]),
                       [i \in 1..Len(df.rows) |->
                          [k \in 1..(Len(df.columns) - 1) |-> cell(df.rows[i][k + 1])]])
  IN IF lines = <<>> THEN RaiseMsg("ValueError", "Empty matrix response.")
     ELSE IF shape(out)[1] # shape(out)[2]
       THEN RaiseMsg("ValueError", "Parsed matrix is not square")
     ELSE Ok(PyTable(out))

\* payload.get(key) on a dict
get(d, key) == IF key \in DOMAIN d.v THEN Some(d.v[key]) ELSE None

\* isinstance(val, str) and val.strip()
IsNonBlankStr(o) == ~o.none /\ o.v.kind = "str" /\ strip(o.v.v) # <<>>

\* isinstance(val, list) and val
IsNonEmptyList(o) == ~o.none /\ o.v.kind = "list" /\ o.v.v # <<>>

\* isinstance(val, dict)
IsDict(o) == ~o.none /\ o.v.kind = "dict"

\* The position of the first key of keys whose value in d satisfies P, 0 if
\* there is none: `for key in keys: val = d.get(key); if P(val): return`.
FirstKey(d, keys, P(_)) ==
  LET hits == {i \in DOMAIN keys : P(get(d, keys[i]))}
  IN IF hits = {} THEN 0 ELSE CHOOSE i \in hits : \A j \in hits : i <= j

TextKeys == <<"matrix", "data", "result", "results", "output", "text", "tsv">>

NestedTextKeys == <<"matrix", "data", "result", "output", "text", "tsv">>

WrapperKeys == <<"response", "payload">>

ArrayKeys == <<"matrix", "data", "result", "results">>

ErrorKeys == <<"error", "errors", "message", "detail", "status">>

\* parsers._try_extract_matrix_text(payload), for str, list and dict payloads.
_try_extract_matrix_text(payload) ==
  IF payload.kind = "str" THEN Some(payload.v)
  ELSE IF payload.kind # "dict" THEN None
  ELSE LET top == FirstKey(payload, TextKeys, IsNonBlankStr)
           HasText(o) == IsDict(o) /\ FirstKey(o.v, NestedTextKeys, IsNonBlankStr) # 0
           w == FirstKey(payload, WrapperKeys, HasText)
           inner == payload.v[WrapperKeys[w]]
       IN IF top # 0 THEN Some(payload.v[TextKeys[top]].v)
          ELSE IF w # 0
            THEN Some(inner.v[NestedTextKeys[FirstKey(inner, NestedTextKeys, IsNonBlankStr)]].v)
          ELSE None

\* str(x) of a str or an int
str(x) == x.v

NoArray == [found |-> FALSE, matrix |-> <<>>, row_labels |-> None, col_labels |-> None]

Array(matrix, row_labels, col_labels) ==
  [found |-> TRUE, matrix |-> matrix, row_labels |-> row_labels, col_labels |-> col_labels]

\* parsers._coerce_list_payload_to_matrix(val) of a non-empty list: a
\* labelled table when the first row is two or more strings, otherwise an
\* unlabelled rectangular array, labelled "0".."n-1" when square.
_coerce_list_payload_to_matrix(val) ==
  LET rows == [i \in 1..Len(val) |-> val[i].v]
      header == rows[1]
      col_labels == [k \in 1..(Len(header) - 1) |-> str(header[k + 1])]
      ncols == Len(rows[1])
      nrows == Len(rows)
      labels == [i \in 1..nrows |-> DigitStr(i - 1)]
  IN IF \E i \in 1..Len(val) : val[i].kind # "list" THEN NoArray
     ELSE IF Len(header) >= 2 /\ \A k \in 1..Len(header) : header[k].kind = "str"
       THEN IF \E i \in 2..nrows : Len(rows[i]) # Len(col_labels) + 1 THEN NoArray
            ELSE Array([i \in 1..(nrows - 1) |-> Tail(rows[i + 1])],
                       Some([i \in 1..(nrows - 1) |-> str(rows[i + 1][1])]),
                       Some(col_labels))
     ELSE IF ncols = 0 THEN NoArray
     ELSE IF \E i \in 1..nrows : Len(rows[i]) # ncols THEN NoArray
     ELSE IF nrows = ncols THEN Array(rows, Some(labels), Some(labels))
     ELSE Array(rows, None, None)

\* parsers._try_extract_matrix_array(payload)
_try_extract_matrix_array(payload) ==
  IF payload.kind = "list" /\ payload.v # <<>> THEN _coerce_list_payload_to_matrix(payload.v)
  ELSE IF payload.kind # "dict" THEN NoArray
  ELSE LET top == FirstKey(payload, ArrayKeys, IsNonEmptyList)
           HasArray(o) == IsDict(o) /\ FirstKey(o.v, ArrayKeys, IsNonEmptyList) # 0
           w == FirstKey(payload, WrapperKeys, HasArray)
           inner == payload.v[WrapperKeys[w]]
       IN IF top # 0 THEN _coerce_list_payload_to_matrix(payload.v[ArrayKeys[top]].v)
          ELSE IF w # 0
            THEN _coerce_list_payload_to_matrix(
                   inner.v[ArrayKeys[FirstKey(inner, ArrayKeys, IsNonEmptyList)]].v)
          ELSE NoArray

\* parsers._try_extract_error_message(payload)
_try_extract_error_message(payload) ==
  IF payload.kind # "dict" THEN None
  ELSE LET k == FirstKey(payload, ErrorKeys, IsNonBlankStr)
       IN IF k = 0 THEN None ELSE Some(strip(payload.v[ErrorKeys[k]].v))

\* pandas.to_numeric(errors="coerce") of a cell of a decoded array: an int,
\* a str, or anything else.
cell_to_numeric(c) ==
  IF c.kind = "num" THEN Normal(DigitsValue(c.v), 0)
  ELSE IF c.kind = "str" THEN to_numeric(c.v)
  ELSE NaN

\* pd.DataFrame(matrix, index=row_labels, columns=col_labels).apply(to_numeric):
\* without labels the columns are counted on the first row.
array_frame(a) ==
  LET ncols == IF ~a.col_labels.none THEN Len(a.col_labels.v)
               ELSE IF a.matrix = <<>> THEN 0 ELSE Len(a.matrix[1])
  IN DataFrame(IF a.col_labels.none THEN [k \in 1..ncols |-> DigitStr(k - 1)]
               ELSE a.col_labels.v,
               a.row_labels,
               [i \in 1..Len(a.matrix) |->
                  [k \in 1..Len(a.matrix[i]) |-> cell_to_numeric(a.matrix[i][k])]])

\* parse_matrix that looks for an error message first.
parsers_parse_matrix_error_first(payload) ==
  LET text == _try_extract_matrix_text(payload)
      a == _try_extract_matrix_array(payload)
      df == array_frame(a)
      msg == _try_extract_error_message(payload)
  IN IF ~msg.none THEN RaiseMsg("ValueError", "LDlink returned an error payload")
     ELSE IF ~text.none THEN _parse_tsv_matrix(text.v)
     ELSE IF a.found
       THEN IF shape(df)[1] # shape(df)[2]
            THEN RaiseMsg("ValueError", "Parsed matrix is not square")
            ELSE Ok(PyTable(df))
     ELSE RaiseMsg("TypeError", "Unsupported matrix payload type/shape.")

\* parsers.parse_matrix(payload): text, then array, then error message, then
\* unsupported payload.
parsers_parse_matrix(payload) ==
  LET text == _try_extract_matrix_text(payload)
      a == _try_extract_matrix_array(payload)
      df == array_frame(a)
      msg == _try_extract_error_message(payload)
  IN IF ~text.none THEN _parse_tsv_matrix(text.v)
     ELSE IF a.found
       THEN IF shape(df)[1] # shape(df)[2]
            THEN RaiseMsg("ValueError", "Parsed matrix is not square")
            ELSE Ok(PyTable(df))
     ELSE IF ~msg.none THEN RaiseMsg("ValueError", "LDlink returned an error payload")
     ELSE RaiseMsg("TypeError", "Unsupported matrix payload type/shape.")

\* -------------------------------------------------- outcomes and requests

\* A call that has not finished.
NoVal == [kind |-> "none", v |-> <<>>]

NoOutcome == [status |-> "running", cat |-> "none", exc |-> "none", embeds |-> <<>>, val |-> NoVal]

\* A call that raised: `cat` is the failure category of the raise site
\* (validation, credential, network, api, parse, call), `exc` the Python exception
\* class, `embeds` the transport errors the message formats in.
Failure(cat, exc, embeds) ==
  [status |-> "raised", cat |-> cat, exc |-> exc, embeds |-> embeds, val |-> NoVal]

\* A call that returned a Python value.
Returned(val) ==
  [status |-> "returned", cat |-> "none", exc |-> "none", embeds |-> <<>>, val |-> val]

NoReq ==
  [dispatcher |-> "none", method |-> "none", endpoint |-> "none", given |-> None,
   params |-> None, json |-> None, headers |-> None, timeout |-> 0, tok |-> <<>>]

Ready(r) == [ok |-> TRUE, req |-> r, fail |-> NoOutcome]

NotReady(f) == [ok |-> FALSE, req |-> NoReq, fail |-> f]

\* Default timeout of http.request.
HttpTimeout == 60

\* Default timeout of LDlinkClient.
ClientTimeout == 60

\* Timeout of ldmatrix._request_json.
MatrixTimeout == 120

\* len(snp_list) up to which ldmatrix 'auto' selects GET.
AutoGetMax == 300

DEFAULT_API_ROOT == "https://ldlink.nih.gov/LDlinkRest"

\* dict(params or {}) followed by d["token"] = tok
WithToken(params, tok) ==
  IF params.none THEN ("token" :> tok)
  ELSE [k \in DOMAIN params.v \cup {"token"} |-> IF k = "token" THEN tok ELSE params.v[k]]

\* ------------------------------------------------------------ http.request

\* The keyword parameters request() declares after the positional endpoint.
RequestKeywords == {"params", "json_body", "headers", "token", "api_root", "method", "timeout"}

KwOr(kwargs, k, default) == IF k \in DOMAIN kwargs THEN kwargs[k] ELSE default

\* http.request(endpoint, **kwargs) up to the lock: binding of the keyword
\* arguments, ensure_token, qparams.
http_request(endpoint, kwargs, env) ==
  IF ~(DOMAIN kwargs \subseteq RequestKeywords) \/ "api_root" \notin DOMAIN kwargs
  THEN NotReady(Failure("call", "TypeError", <<>>))
  ELSE LET params == KwOr(kwargs, "params", None)
           token == KwOr(kwargs, "token", None)
           tok == ensure_token(token, env)
       IN IF ~tok.ok THEN NotReady(Failure("credential", tok.exc, <<>>))
          ELSE Ready([dispatcher |-> "http",
                      method |-> KwOr(kwargs, "method", "GET"),
                      endpoint |-> endpoint,
                      given |-> params,
                      params |-> Some(WithToken(params, tok.val)),
                      json |-> KwOr(kwargs, "json_body", None),
                      headers |-> KwOr(kwargs, "headers", None),
                      timeout |-> KwOr(kwargs, "timeout", HttpTimeout),
                      tok |-> tok.val])

\* _raise_for_status with the threshold of server errors only.
_raise_for_status_5xx(status) == status >= 500

\* http._raise_for_status(resp, url)
_raise_for_status(status) == status >= 400

\* http._parse_body(resp): the decoded value of a body that looks like JSON
\* and decodes, the text otherwise.
_parse_body(text) ==
  IF is_json_response(text)
  THEN (IF json_loads(text).ok THEN json_loads(text).val ELSE PyStr(text))
  ELSE PyStr(text)

\* http.request that fails on a body that looks like JSON and does not
\* decode.
http_finish_strict(status, text) ==
  IF _raise_for_status(status) THEN Failure("api", "RuntimeError", <<>>)
  ELSE IF is_json_response(text) /\ ~json_loads(text).ok
    THEN Failure("parse", "JSONDecodeError", <<>>)
  ELSE Returned(_parse_body(text))

\* http.request after the lock: _raise_for_status, then _parse_body.
http_finish(status, text) ==
  IF _raise_for_status(status) THEN Failure("api", "RuntimeError", <<>>)
  ELSE Returned(_parse_body(text))

\* ---------------------------------------------------- LDlinkClient.request

\* LDlinkClient(token, api_root).request(method, endpoint, params, json_body)
\* up to the lock; get() and post() pass "GET" and "POST", which
\* method.upper() leaves as they are.
client_request(method, endpoint, params, json_body, token, env) ==
  LET tok == client_token(token, env)
  IN IF ~tok.ok THEN NotReady(Failure("credential", tok.exc, <<>>))
     ELSE Ready([dispatcher |-> "client",
                 method |-> method,
                 endpoint |-> endpoint,
                 given |-> params,
                 params |-> Some(WithToken(params, tok.val)),
                 json |-> json_body,
                 headers |-> None,
                 timeout |-> ClientTimeout,
                 tok |-> tok.val])

\* LDlinkClient.request after the lock: the status check.
client_finish(status, text) ==
  IF status # 200 THEN Failure("api", "APIError", <<>>) ELSE Returned(PyStr(text))

\* ------------------------------------------------- ldmatrix._request_json

\* _request_json that also passes the JSON body as the query parameters.
_request_json_both(method, endpoint, headers, params, json_body, tok) ==
  Ready([dispatcher |-> "matrix",
         method |-> method,
         endpoint |-> endpoint,
         given |-> params,
         params |-> IF params.none THEN json_body ELSE params,
         json |-> json_body,
         headers |-> Some(headers),
         timeout |-> MatrixTimeout,
         tok |-> tok])

\* _request_json(method, url, headers, params, json_body) up to the lock.
_request_json(method, endpoint, headers, params, json_body, tok) ==
  Ready([dispatcher |-> "matrix",
         method |-> method,
         endpoint |-> endpoint,
         given |-> params,
         params |-> params,
         json |-> json_body,
         headers |-> Some(headers),
         timeout |-> MatrixTimeout,
         tok |-> tok])

\* _request_json after the lock: the status check, then resp.json() or text.
matrix_finish(status, text) ==
  IF status >= 400 THEN Failure("api", "RuntimeError", <<>>)
  ELSE IF json_loads(text).ok THEN Returned(json_loads(text).val)
  ELSE Returned(PyStr(text))

\* ------------------------------------------------------ endpoint: ldproxy

\* ldproxy(snp, pop, r2d, win_size, genome_build, token, api_root, return_type)
\* up to the transport call of client.get.
ldproxy(inp, env) ==
  LET gb == lower(strip(inp.genome_build))
      r2d_norm == lower(strip(inp.r2d))
      pop_joined == _normalize_pop(inp.pop)
  IN IF strip(inp.snp) = <<>> THEN NotReady(Failure("validation", "ValueError", <<>>))
     ELSE IF gb \notin {s_grch37, s_grch38}
       THEN NotReady(Failure("validation", "ValueError", <<>>))
     ELSE IF r2d_norm \notin {s_r2, s_d}
       THEN NotReady(Failure("validation", "ValueError", <<>>))
     ELSE IF inp.win_size <= 0 THEN NotReady(Failure("validation", "ValueError", <<>>))
     ELSE IF ~pop_joined.ok THEN NotReady(Failure("validation", pop_joined.exc, <<>>))
     ELSE client_request("GET", "ldproxy",
                         Some([var |-> strip(inp.snp), pop |-> pop_joined.val,
                               r2_d |-> r2d_norm, window |-> inp.win_size,
                               genome_build |-> gb]),
                         None, inp.token, env)

\* ldproxy after client.get returned: the return_type dispatch, with
\* pd.read_csv(StringIO(text), sep="\t", dtype=str) of a text without blank
\* lines whose lines form a rectangular grid.
ldproxy_finish(inp, got) ==
  LET rt == lower(strip(inp.return_type))
      df == read_csv_header(splitlines(got.val.v))
      cell(c) == IF c \in STR_NA_VALUES THEN NaNLabel ELSE c
  IN IF got.status # "returned" THEN got
     ELSE IF rt = s_dataframe
       THEN IF got.val.v = <<>> THEN Failure("parse", "EmptyDataError", <<>>)
            ELSE Returned(PyTable(DataFrame(df.columns, None,
                   [i \in 1..Len(df.rows) |->
                      [k \in 1..Len(df.rows[i]) |-> cell(df.rows[i][k])]])))
     ELSE IF rt = s_raw THEN got
     ELSE Failure("validation", "ValueError", <<>>)

\* ----------------------------------------------------- endpoint: ldmatrix

\* The 'auto' choice with a strict comparison.
auto_req_method_lt(n) == IF n < AutoGetMax THEN s_get ELSE s_post

\* The 'auto' choice of ldmatrix: "get" if len(snp_list) <= 300 else "post".
auto_req_method(n) == IF n <= AutoGetMax THEN s_get ELSE s_post

\* ldmatrix(snps, pop, r2d, genome_build, token, api_root, return_type,
\* request_method) up to the transport call of _request_json.
ldmatrix(inp, env) ==
  LET snp_list == _normalize_snps(inp.snps)
      pop == strip(inp.pop)
      r2d == _validate_choice(inp.r2d, {s_r2, s_d})
      genome_build == _validate_choice(inp.genome_build, {s_grch37, s_grch38})
      return_type_norm == lower(strip(inp.return_type))
      req_method0 == lower(strip(inp.request_method))
      req_method == IF req_method0 = s_auto
                    THEN auto_req_method(Len(snp_list.val))
                    ELSE req_method0
      tok == _get_token(inp.token, env)
      headers == [ContentType |-> "application/json", Accept |-> "application/json",
                  Authorization |-> <<"Bearer", tok.val>>]
  IN IF ~snp_list.ok THEN NotReady(Failure("validation", snp_list.exc, <<>>))
     ELSE IF pop = <<>> THEN NotReady(Failure("validation", "ValueError", <<>>))
     ELSE IF ~r2d.ok THEN NotReady(Failure("validation", r2d.exc, <<>>))
     ELSE IF ~genome_build.ok THEN NotReady(Failure("validation", genome_build.exc, <<>>))
     ELSE IF return_type_norm \notin {s_dataframe, s_raw}
       THEN NotReady(Failure("validation", "ValueError", <<>>))
     ELSE IF req_method0 \notin {s_auto, s_get, s_post}
       THEN NotReady(Failure("validation", "ValueError", <<>>))
     ELSE IF ~tok.ok THEN NotReady(Failure("credential", tok.exc, <<>>))
     ELSE IF req_method = s_get
       THEN _request_json("GET", "ldmatrix", headers,
                          Some([snps |-> join(snp_list.val, s_plus), pop |-> pop,
                                r2_d |-> r2d.val, genome_build |-> genome_build.val]),
                          None, tok.val)
       ELSE _request_json("POST", "ldmatrix", headers, None,
                          Some([snps |-> snp_list.val, pop |-> pop,
                                r2_d |-> r2d.val, genome_build |-> genome_build.val]),
                          tok.val)

\* ldmatrix after _request_json returned: raw, or parse_matrix.
ldmatrix_finish(inp, got) ==
  LET df == parsers_parse_matrix(got.val)
  IN IF got.status # "returned" THEN got
     ELSE IF lower(strip(inp.return_type)) = s_raw THEN got
     ELSE IF ~df.ok THEN Failure("parse", "RuntimeError", <<>>)
     ELSE Returned(df.val)

\* ------------------------------------------------------- endpoint: ldpair

\* The method choice without the check of 'get' against several pairs.
select_method_unchecked(rm, is_multi) ==
  IF rm = s_auto THEN Ok(IF is_multi THEN "POST" ELSE "GET")
  ELSE Ok(IF rm = s_get THEN "GET" ELSE "POST")

\* The method choice of ldpair for rm in {auto, get, post}: 'get' with
\* several pairs raises, 'auto' is POST for several pairs and GET for one,
\* otherwise rm.upper().
select_method(rm, is_multi) ==
  IF rm = s_get /\ is_multi THEN Raise("ValueError")
  ELSE IF rm = s_auto THEN Ok(IF is_multi THEN "POST" ELSE "GET")
  ELSE Ok(IF rm = s_get THEN "GET" ELSE "POST")

\* ldpair(var1, var2, snp_pairs, pop, genome_build, token, api_root, output,
\* request_method) up to the transport call of http.request.
ldpair(inp, env) ==
  LET build == validate_genome_build(inp.genome_build)
      rm == lower(strip(inp.request_method))
      using_single_vars == ~inp.var1.none \/ ~inp.var2.none
      pairs == IF inp.snp_pairs.none
               THEN (LET ab == _normalize_pair(inp.var1, inp.var2)
                     IN IF ab.ok THEN Ok(<<ab.val>>) ELSE ab)
               ELSE _normalize_snp_pairs(inp.snp_pairs.v)
      is_multi == Len(pairs.val) > 1
      method == select_method(rm, is_multi)
  IN IF ~build.ok THEN NotReady(Failure("validation", build.exc, <<>>))
     ELSE IF inp.output \notin {s_table, s_text}
       THEN NotReady(Failure("validation", "ValueError", <<>>))
     ELSE IF rm \notin {s_auto, s_get, s_post}
       THEN NotReady(Failure("validation", "ValueError", <<>>))
     ELSE IF ~inp.snp_pairs.none /\ using_single_vars
       THEN NotReady(Failure("validation", "ValueError", <<>>))
     ELSE IF ~pairs.ok THEN NotReady(Failure("validation", pairs.exc, <<>>))
     ELSE IF ~method.ok THEN NotReady(Failure("validation", method.exc, <<>>))
     ELSE IF method.val = "GET"
       THEN http_request("ldpair",
                         [token |-> inp.token, api_root |-> DEFAULT_API_ROOT,
                          method |-> "GET",
                          params |-> Some([var1 |-> pairs.val[1][1],
                                           var2 |-> pairs.val[1][2],
                                           pop |-> inp.pop,
                                           genome_build |-> inp.genome_build])],
                         env)
       ELSE http_request("ldpair",
                         [token |-> inp.token, api_root |-> DEFAULT_API_ROOT,
                          method |-> "POST",
                          json |-> Some([snp_pairs |-> pairs.val, pop |-> inp.pop,
                                         genome_build |-> inp.genome_build])],
                         env)

\* ldpair after http_request returned: on the GET path a decoded value is
\* returned as it is, text is returned or parsed with parse_tsv; on the POST
\* path a decoded value is returned as it is, text that looks like JSON is
\* decoded, other text returned.
ldpair_finish(inp, req, got) ==
  LET df == parse_tsv(got.val.v)
      decoded == json_loads(got.val.v)
  IN IF got.status # "returned" THEN got
     ELSE IF got.val.kind \in {"dict", "list"} THEN got
     ELSE IF req.method = "GET"
       THEN IF inp.output = s_text THEN got
            ELSE IF ~df.ok THEN Failure("parse", df.exc, <<>>)
            ELSE Returned(df.val)
     ELSE IF is_json_response(got.val.v)
       THEN IF ~decoded.ok THEN Failure("parse", decoded.exc, <<>>)
            ELSE Returned(decoded.val)
     ELSE got

\* A direct call of the shared helper: http.request(endpoint, **kwargs).
direct_request(inp, env) == http_request(inp.endpoint, inp.kwargs, env)

\* ------------------------------------------------------------------ inputs

\* Explicit token arguments: absent, empty, blank, plain, padded.
TokenInputs == {None, Some(<<>>), Some(<<" ">>), Some(<<"a">>), Some(<<" ", "a", " ">>)}

\* Values of the environment variable LDLINK_TOKEN: unset, blank, set.
EnvInputs == {None, Some(<<" ">>), Some(<<"b", " ">>)}

BuildInputs == {s_grch37, <<" ","G","R","C","h","3","8">>, <<"h","g","1","9">>}

R2dInputs == {s_r2, <<"D">>, <<"x">>}

ReturnTypeInputs == {s_dataframe, <<"R","A","W">>, <<"j","s","o","n">>}

MethodInputs == {s_auto, s_get, <<"P","O","S","T">>, <<"p","u","t">>}

OutputInputs == {s_table, s_text, <<"j","s","o","n">>}

LdproxyInputs ==
  [op : {"ldproxy"}, snp : {s_rs1, <<" ">>},
   pop : {SV(s_CEU), SV(<<>>), LV(<<s_CEU, s_YRI>>)},
   r2d : R2dInputs, win_size : {500000, 0}, genome_build : BuildInputs,
   token : TokenInputs, return_type : ReturnTypeInputs]

LdmatrixInputs ==
  [op : {"ldmatrix"},
   snps : {SV(<<"r","s","1",","," ","r","s","2">>), LV(<<s_rs1, s_rs2, s_rs3>>), SV(<<" ">>),
           LV(<<<<" ">>, s_rs2>>), SV(<<";">>)},
   pop : {s_CEU, <<>>}, r2d : R2dInputs, genome_build : BuildInputs,
   token : TokenInputs, return_type : ReturnTypeInputs, request_method : MethodInputs]

PairListInputs ==
  {None, Some(<<>>), Some(<<<<s_rs1, s_rs2>>>>), Some(<<<<s_rs1, s_rs2>>, <<s_rs3, s_rs1>>>>),
   Some(<<<<s_rs1>>>>), Some(<<<<s_rs1, <<" ">>>>>>)}

LdpairInputs ==
  [op : {"ldpair"}, var1 : {None, Some(s_rs1)}, var2 : {None, Some(s_rs2), Some(<<>>)},
   snp_pairs : PairListInputs, pop : {s_CEU}, genome_build : BuildInputs,
   token : TokenInputs, output : OutputInputs, request_method : MethodInputs]

\* Calls of http.request by a caller of the library.
DirectInputs ==
  {[op |-> "request", endpoint |-> "LDproxy", kwargs |-> kw] :
     kw \in UNION {
       [api_root : {DEFAULT_API_ROOT}, token : TokenInputs,
        params : {None, Some([snp |-> s_rs1])}],
       [api_root : {DEFAULT_API_ROOT}, token : TokenInputs, method : {"POST"},
        params : {Some([pop |-> s_CEU])}, json_body : {Some([snps |-> <<s_rs1, s_rs2>>])}],
       [api_root : {DEFAULT_API_ROOT}, token : TokenInputs,
        headers : {Some([Accept |-> "application/json"])}]}}

\* A list of n identifiers.
Ids(n) == [i \in 1..n |-> s_rs1]

\* Lengths of identifier lists around the GET/POST threshold.
LongListLens == {299, 300, 301}

\* Calls of ldmatrix with identifier lists around the threshold.
LdmatrixLongInputs ==
  [op : {"ldmatrix"}, snps : {LV(Ids(n)) : n \in LongListLens},
   pop : {s_CEU}, r2d : {s_r2}, genome_build : {s_grch37},
   token : {Some(<<"a">>)}, return_type : {s_raw}, request_method : MethodInputs]

\* Every call a single caller can make.
CallInputs ==
  LdproxyInputs \cup LdmatrixInputs \cup LdmatrixLongInputs \cup LdpairInputs \cup DirectInputs

\* The calls concurrent callers make: one well-formed call per request shape.
ConcInputs ==
  { [op |-> "ldproxy", snp |-> s_rs1, pop |-> SV(s_CEU), r2d |-> s_r2, win_size |-> 500000,
     genome_build |-> s_grch37, token |-> None, return_type |-> s_dataframe],
    [op |-> "ldmatrix", snps |-> LV(<<s_rs1, s_rs2>>), pop |-> s_CEU, r2d |-> s_r2,
     genome_build |-> s_grch37, token |-> None, return_type |-> s_raw,
     request_method |-> s_auto],
    [op |-> "ldpair", var1 |-> Some(s_rs1), var2 |-> Some(s_rs2), snp_pairs |-> None,
     pop |-> s_CEU, genome_build |-> s_grch37, token |-> None, output |-> s_table,
     request_method |-> s_auto],
    [op |-> "ldpair", var1 |-> None, var2 |-> None,
     snp_pairs |-> Some(<<<<s_rs1, s_rs2>>, <<s_rs3, s_rs1>>>>),
     pop |-> s_CEU, genome_build |-> s_grch37, token |-> None, output |-> s_table,
     request_method |-> s_auto] }

\* The endpoint operation up to its transport call.
Prepare(inp, env) ==
  CASE inp.op = "ldproxy" -> ldproxy(inp, env)
    [] inp.op = "ldmatrix" -> ldmatrix(inp, env)
    [] inp.op = "ldpair" -> ldpair(inp, env)
    [] inp.op = "request" -> direct_request(inp, env)

\* The dispatcher after the lock is released, given the response status
\* and text.
DispatcherFinish(r, status, text) ==
  CASE r.dispatcher = "http" -> http_finish(status, text)
    [] r.dispatcher = "client" -> client_finish(status, text)
    [] r.dispatcher = "matrix" -> matrix_finish(status, text)

\* The endpoint operation after its dispatcher returned or raised.
Finish(inp, r, got) ==
  CASE inp.op = "ldproxy" -> ldproxy_finish(inp, got)
    [] inp.op = "ldmatrix" -> ldmatrix_finish(inp, got)
    [] inp.op = "ldpair" -> ldpair_finish(inp, r, got)
    [] inp.op = "request" -> got

\* ------------------------------------------------------------------- state

VARIABLES
  environ,   \* os.environ.get("LDLINK_TOKEN")
  pc,        \* where each caller thread is in its call
  call,      \* the arguments of each thread's current call
  req,       \* the request each thread's dispatcher built
  attempts,  \* per thread, the resolver policy of each transport attempt made
  errs,      \* per thread, the exceptions its transport attempts raised
  resp,      \* per thread, the status of the response received, 0 if none
  pending,   \* per thread, the exception leaving the lock region, "none" if none
  outcome,   \* per thread, how the call ended
  lock,      \* holder of each threading.Lock, 0 when free
  gai,       \* urllib3.util.connection.allowed_gai_family
  saved,     \* per thread, `original` of _force_ipv4_only
  inflight,  \* the threads inside requests.request
  body,      \* per thread, the text of the response received
  tk,        \* token resolution applied on its own
  pa         \* response parsing applied on its own

vars == <<environ, pc, call, req, attempts, errs, resp, pending, outcome, lock, gai,
          saved, inflight, body, tk, pa>>

dvars == <<environ, pc, call, req, attempts, errs, resp, pending, outcome, lock, gai,
           saved, inflight, body>>

Threads == 1..NThreads

NoCall == [op |-> "none"]

\* http._REQUEST_LOCK, ldmatrix._REQUEST_LOCK, and the _lock of the
\* LDlinkClient each ldproxy call constructs.
LockIds == {<<"http", 0>>, <<"matrix", 0>>} \cup {<<"client", t>> : t \in Threads}

\* The lock a thread's dispatcher takes.
LockOf(t) ==
  CASE req[t].dispatcher = "http" -> <<"http", 0>>
    [] req[t].dispatcher = "matrix" -> <<"matrix", 0>>
    [] req[t].dispatcher = "client" -> <<"client", t>>

\* What requests.request raises: requests.exceptions classes.
TransportErrors == {"ConnectionError", "ConnectTimeout", "ReadTimeout"}

\* An except clause that catches every transport error.
IsConnectionError_any(e) == e \in TransportErrors

\* isinstance(e, requests.exceptions.ConnectionError): ConnectTimeout derives
\* from both ConnectionError and Timeout, ReadTimeout from Timeout alone.
IsConnectionError(e) == e \in {"ConnectionError", "ConnectTimeout"}

\* Status codes a response carries.
Statuses == {200, 204, 400}

\* Texts of response bodies.
b_empty == <<>>

b_table == <<"S", "N", "P", "\t", "R", "2", "\n", "r", "s", "1", "\t", "0", ".", "4">>

b_matrix == <<"\t", "r", "s", "1", "\n", "r", "s", "1", "\t", "1">>

b_list == <<"[", "1", ",", "2", "]">>

b_dict == <<"{", "}">>

b_broken == <<"[", "1">>

\* The response bodies a single caller may receive: nothing, a delimited
\* table, a matrix, JSON text of a list and of a mapping, and text that
\* looks like JSON and is none.
CallBodies == {b_empty, b_table, b_matrix, b_list, b_dict, b_broken}

\* The response body concurrent callers receive.
ConcBodies == {b_table}

TkIdle == [phase |-> "idle", fn |-> "none", token |-> None, env |-> None, result |-> Ok(<<>>)]

PaIdle ==
  [phase |-> "idle", fn |-> "none", kind |-> "none", arg |-> PyStr(<<>>), src |-> None,
   result |-> Ok(PyStr(<<>>))]

\* The state before any call, with LDLINK_TOKEN drawn from envs.
InitEnv(envs) ==
  /\ environ \in envs
  /\ pc = [t \in Threads |-> "idle"]
  /\ call = [t \in Threads |-> NoCall]
  /\ req = [t \in Threads |-> NoReq]
  /\ attempts = [t \in Threads |-> <<>>]
  /\ errs = [t \in Threads |-> <<>>]
  /\ resp = [t \in Threads |-> 0]
  /\ pending = [t \in Threads |-> "none"]
  /\ outcome = [t \in Threads |-> NoOutcome]
  /\ lock = [l \in LockIds |-> 0]
  /\ gai = "default"
  /\ saved = [t \in Threads |-> "default"]
  /\ inflight = {}
  /\ body = [t \in Threads |-> <<>>]
  /\ tk = TkIdle
  /\ pa = PaIdle

\* A process whose environment holds a token.
Init == InitEnv({Some(<<"b", " ">>)})

\* A process with any environment.
InitCall == InitEnv(EnvInputs)

\* ----------------------------------------------------------------- actions

\* A thread calls an endpoint operation (or http.request): everything up to
\* the dispatcher's lock.
Call(t, inputs) ==
  /\ pc[t] = "idle"
  /\ \E inp \in inputs :
       LET p == Prepare(inp, environ)
       IN /\ call' = [call EXCEPT ![t] = inp]
          /\ IF p.ok
             THEN /\ req' = [req EXCEPT ![t] = p.req]
                  /\ pc' = [pc EXCEPT ![t] = "acquire"]
                  /\ outcome' = outcome
             ELSE /\ req' = req
                  /\ pc' = [pc EXCEPT ![t] = "done"]
                  /\ outcome' = [outcome EXCEPT ![t] = p.fail]
  /\ UNCHANGED <<environ, attempts, errs, resp, pending, lock, gai, saved, inflight, body, tk, pa>>

\* A lock taken without waiting for its holder.
Acquire_nowait(t) ==
  /\ pc[t] = "acquire"
  /\ lock' = [lock EXCEPT ![LockOf(t)] = t]
  /\ pc' = [pc EXCEPT ![t] = "send"]
  /\ UNCHANGED <<environ, call, req, attempts, errs, resp, pending, outcome, gai, saved,
                 inflight, body, tk, pa>>

\* Lock.acquire(): _request_lock(), `with self._lock`, `with _REQUEST_LOCK`.
Acquire(t) ==
  /\ pc[t] = "acquire"
  /\ lock[LockOf(t)] = 0
  /\ lock' = [lock EXCEPT ![LockOf(t)] = t]
  /\ pc' = [pc EXCEPT ![t] = "send"]
  /\ UNCHANGED <<environ, call, req, attempts, errs, resp, pending, outcome, gai, saved,
                 inflight, body, tk, pa>>

\* requests.request(...) is entered; the connection is resolved under the
\* policy in force.
BeginTransport(t) ==
  /\ pc[t] = "send"
  /\ inflight' = inflight \cup {t}
  /\ attempts' = [attempts EXCEPT ![t] = Append(@, gai)]
  /\ pc' = [pc EXCEPT ![t] = "wait"]
  /\ UNCHANGED <<environ, call, req, errs, resp, pending, outcome, lock, gai, saved, body, tk, pa>>

\* requests.request(...) returns a response.
TransportReturns(t, bodies) ==
  /\ pc[t] = "wait"
  /\ \E s \in Statuses : resp' = [resp EXCEPT ![t] = s]
  /\ \E b \in bodies : body' = [body EXCEPT ![t] = b]
  /\ inflight' = inflight \ {t}
  /\ pc' = [pc EXCEPT ![t] =
              IF req[t].dispatcher = "http" /\ Len(attempts[t]) = 2 THEN "ipv4_exit"
              ELSE "release"]
  /\ UNCHANGED <<environ, call, req, attempts, errs, pending, outcome, lock, gai, saved, tk, pa>>

\* requests.request(...) raises, and the dispatcher's except clauses run.
TransportRaises(t) ==
  /\ pc[t] = "wait"
  /\ inflight' = inflight \ {t}
  /\ \E e \in TransportErrors :
       /\ errs' = [errs EXCEPT ![t] = Append(@, e)]
       /\ CASE req[t].dispatcher = "http" /\ Len(attempts[t]) = 1 ->
                 IF IsConnectionError(e)
                 THEN /\ pc' = [pc EXCEPT ![t] = "ipv4_enter"]
                      /\ pending' = pending
                 ELSE /\ pc' = [pc EXCEPT ![t] = "release"]
                      /\ pending' = [pending EXCEPT ![t] = e]
            [] req[t].dispatcher = "http" /\ Len(attempts[t]) = 2 ->
                 /\ pc' = [pc EXCEPT ![t] = "ipv4_exit"]
                 /\ pending' = [pending EXCEPT ![t] =
                                  IF IsConnectionError(e) THEN "RuntimeError" ELSE e]
            [] req[t].dispatcher = "client" ->
                 /\ pc' = [pc EXCEPT ![t] = "release"]
                 /\ pending' = [pending EXCEPT ![t] = e]
            [] req[t].dispatcher = "matrix" ->
                 /\ pc' = [pc EXCEPT ![t] = "release"]
                 /\ pending' = [pending EXCEPT ![t] = "RuntimeError"]
  /\ UNCHANGED <<environ, call, req, attempts, resp, outcome, lock, gai, saved, body, tk, pa>>

\* _force_ipv4_only().__enter__ without the assignment of the patched policy.
ForceIPv4Enter_nopatch(t) ==
  /\ pc[t] = "ipv4_enter"
  /\ saved' = [saved EXCEPT ![t] = gai]
  /\ gai' = gai
  /\ pc' = [pc EXCEPT ![t] = "send"]
  /\ UNCHANGED <<environ, call, req, attempts, errs, resp, pending, outcome, lock,
                 inflight, body, tk, pa>>

\* _force_ipv4_only().__enter__
ForceIPv4Enter(t) ==
  /\ pc[t] = "ipv4_enter"
  /\ saved' = [saved EXCEPT ![t] = gai]
  /\ gai' = "ipv4"
  /\ pc' = [pc EXCEPT ![t] = "send"]
  /\ UNCHANGED <<environ, call, req, attempts, errs, resp, pending, outcome, lock,
                 inflight, body, tk, pa>>

\* _force_ipv4_only().__exit__
ForceIPv4Exit(t) ==
  /\ pc[t] = "ipv4_exit"
  /\ gai' = saved[t]
  /\ pc' = [pc EXCEPT ![t] = "release"]
  /\ UNCHANGED <<environ, call, req, attempts, errs, resp, pending, outcome, lock, saved,
                 inflight, body, tk, pa>>

\* How a dispatcher ends once its lock is released.
DispatcherOutcome(t) ==
  IF pending[t] = "none" THEN DispatcherFinish(req[t], resp[t], body[t])
  ELSE IF req[t].dispatcher = "http"
    THEN (IF pending[t] = "RuntimeError"
          THEN Failure("network", "RuntimeError", errs[t])
          ELSE Failure("network", pending[t], <<pending[t]>>))
  ELSE IF req[t].dispatcher = "client"
    THEN Failure("network", "APIError", <<pending[t]>>)
  ELSE Failure("network", "RuntimeError", <<errs[t][Len(errs[t])]>>)

\* A release that keeps the lock when the transport raised.
Release_leaky(t) ==
  /\ pc[t] = "release"
  /\ lock' = [lock EXCEPT ![LockOf(t)] = IF pending[t] = "none" THEN 0 ELSE @]
  /\ outcome' = [outcome EXCEPT ![t] = Finish(call[t], req[t], DispatcherOutcome(t))]
  /\ pc' = [pc EXCEPT ![t] = "done"]
  /\ UNCHANGED <<environ, call, req, attempts, errs, resp, pending, gai, saved, inflight, body, tk, pa>>

\* Lock.release(), then the rest of the dispatcher and of the endpoint
\* operation, which touch no shared state.
Release(t) ==
  /\ pc[t] = "release"
  /\ lock' = [lock EXCEPT ![LockOf(t)] = 0]
  /\ outcome' = [outcome EXCEPT ![t] = Finish(call[t], req[t], DispatcherOutcome(t))]
  /\ pc' = [pc EXCEPT ![t] = "done"]
  /\ UNCHANGED <<environ, call, req, attempts, errs, resp, pending, gai, saved, inflight, body, tk, pa>>

\* The call's result is consumed; the thread may call again.
Return(t) ==
  /\ pc[t] = "done"
  /\ pc' = [pc EXCEPT ![t] = "idle"]
  /\ call' = [call EXCEPT ![t] = NoCall]
  /\ req' = [req EXCEPT ![t] = NoReq]
  /\ attempts' = [attempts EXCEPT ![t] = <<>>]
  /\ errs' = [errs EXCEPT ![t] = <<>>]
  /\ resp' = [resp EXCEPT ![t] = 0]
  /\ pending' = [pending EXCEPT ![t] = "none"]
  /\ outcome' = [outcome EXCEPT ![t] = NoOutcome]
  /\ body' = [body EXCEPT ![t] = <<>>]
  /\ UNCHANGED <<environ, lock, gai, saved, inflight, tk, pa>>

\* Concurrent callers.
Next ==
  \E t \in Threads :
    \/ Call(t, ConcInputs)
    \/ Acquire(t)
    \/ BeginTransport(t)
    \/ TransportReturns(t, ConcBodies)
    \/ TransportRaises(t)
    \/ ForceIPv4Enter(t)
    \/ ForceIPv4Exit(t)
    \/ Release(t)
    \/ Return(t)

Spec == Init /\ [][Next]_vars

\* A thread that has entered a dispatcher runs on: every transport call
\* returns or raises, the steps between the lock's acquisition and its
\* release are taken, and a thread that finds the lock free again and again
\* gets it. Callers need not call, nor call again.
Proceed(t) ==
  \/ BeginTransport(t)
  \/ TransportReturns(t, ConcBodies)
  \/ TransportRaises(t)
  \/ ForceIPv4Enter(t)
  \/ ForceIPv4Exit(t)

\* The step of Release(t), as pc shows it.
Leave(t) == pc[t] = "release" /\ pc' = [pc EXCEPT ![t] = "done"]

Fairness ==
  \A t \in Threads :
    /\ SF_vars(Acquire(t))
    /\ WF_vars(Proceed(t))
    /\ WF_pc(Leave(t))

\* Concurrent callers whose threads run on.
SpecLive == Init /\ [][Next]_vars /\ Fairness

\* One caller, every input.
NextCall ==
  \/ Call(1, CallInputs)
  \/ Acquire(1)
  \/ BeginTransport(1)
  \/ TransportReturns(1, CallBodies)
  \/ TransportRaises(1)
  \/ ForceIPv4Enter(1)
  \/ ForceIPv4Exit(1)
  \/ Release(1)
  \/ Return(1)

SpecCall == InitCall /\ [][NextCall]_vars

\* ------------------------------------------- token resolution on its own

TkStrings == SeqsUpTo({" ", "a"}, MaxTokLen)

TkOptional == {None} \cup {Some(x) : x \in TkStrings}

\* One of the token resolvers is applied to an explicit token and an
\* environment value.
TkApply ==
  /\ tk.phase = "idle"
  /\ \E fn \in Resolvers, token \in TkOptional, env \in TkOptional :
       tk' = [phase |-> "done", fn |-> fn, token |-> token, env |-> env,
              result |-> Resolve(fn, token, env)]
  /\ UNCHANGED <<dvars, pa>>

TkReset ==
  /\ tk.phase = "done"
  /\ tk' = TkIdle
  /\ UNCHANGED <<dvars, pa>>

NextToken == TkApply \/ TkReset

SpecToken == Init /\ [][NextToken]_vars

\* ------------------------------------------- response parsing on its own

\* Row and column labels of generated matrices.
Labels == {<<"a">>, <<"b">>}

\* Numbers of columns of generated texts.
GridCols == {1, 2}

\* Lines of n tab-separated fields drawn from tokens.
LinesOf(tokens, n) == {join(fs, <<"\t">>) : fs \in [1..n -> tokens]}

\* The ways a delimited text is laid out: lines joined by line feeds, with a
\* final line feed, or with blank lines before, between and after the lines.
Layouts == {"plain", "newline", "blank"}

Layout(lines, how) ==
  CASE how = "plain" -> join(lines, <<"\n">>)
    [] how = "newline" -> join(lines, <<"\n">>) \o <<"\n">>
    [] how = "blank" -> <<"\n">> \o join(lines, <<"\n", " ", "\n">>) \o <<"\n", "\n">>

\* Tokens of the first line of a table: an integer, a number with an
\* exponent, a word, a signed fraction, an empty cell.
HeadTokens == {<<"1">>, <<"1", "e", "5">>, <<"a">>, <<"-", ".", "5">>, <<>>}

\* Delimited tables: a first line and up to MaxLines further lines.
TsvTexts ==
  UNION {{Layout(<<first>> \o rest, how) :
            first \in LinesOf(HeadTokens, n),
            rest \in UNION {[1..k -> LinesOf({<<"3">>, <<"b">>}, n)] : k \in 0..MaxLines},
            how \in Layouts} : n \in GridCols}

\* A labelled row of n cells.
RowLines(cells, n) == {l \o <<"\t">> \o c : l \in Labels, c \in LinesOf(cells, n)}

\* Matrix texts: a header line with an empty first cell and up to MaxLines
\* labelled rows of cells, square or not.
MatrixTexts ==
  UNION {{Layout(<<join(<<<<>>>> \o hdr, <<"\t">>)>> \o rows, "newline") :
            hdr \in [1..n -> Labels],
            rows \in UNION {[1..k -> RowLines({<<"1">>, <<"x">>}, n)] : k \in 0..MaxLines}}
         : n \in GridCols}

\* Cells of generated numeric matrices: 1 and 0.75.
Values == {Number(1, 0), Number(75, -2)}

\* str(n) of a natural number
RECURSIVE IntStr(_)
IntStr(n) == IF n < 10 THEN DigitStr(n) ELSE IntStr(n \div 10) \o DigitStr(n % 10)

\* The decimal text of a number 0 <= x < 10 as LDlink writes it: "1", "0.75".
FormatNumber(x) ==
  LET ds == IntStr(x.m)
      zeros(k) == [i \in 1..k |-> "0"]
  IN IF x.e >= 0 THEN ds \o zeros(x.e)
     ELSE <<"0", ".">> \o zeros((0 - x.e) - Len(ds)) \o ds

\* A square matrix of n labelled rows and columns.
Matrix(labels, cells) == [labels |-> labels, cells |-> cells]

SquareMatrices ==
  UNION {{Matrix(labels, cells) : labels \in [1..n -> Labels],
                                  cells \in [1..n -> [1..n -> Values]]} : n \in 1..MaxLines}

\* The lines of the text LDlink writes for a matrix: a header line with an
\* empty first cell, then one line per row that starts with the row's label.
to_tsv_lines(m) ==
  <<join(<<<<>>>> \o m.labels, <<"\t">>)>> \o
  [i \in 1..Len(m.labels) |->
     join(<<m.labels[i]>> \o [k \in 1..Len(m.labels) |-> FormatNumber(m.cells[i][k])],
          <<"\t">>)]

\* Decoded JSON arrays handed to parsers.parse_matrix: rows of numbers, and
\* a header row of strings followed by labelled rows.
ArrayPayloads ==
  UNION {{PyList([i \in 1..r |-> PyList([k \in 1..n |-> PyNum(<<"1">>)])]),
          PyList(<<PyList([k \in 1..(n + 1) |-> PyStr(<<"a">>)])>> \o
                 [i \in 1..(r - 1) |->
                    PyList(<<PyStr(<<"a">>)>> \o [k \in 1..n |-> PyNum(<<"1">>)])])}
         : r \in 1..(MaxLines + 1), n \in GridCols}

\* Decoded JSON objects handed to parsers.parse_matrix: a matrix text or an
\* array under a key, and objects that hold no matrix.
TextPayloads == {PyDict([matrix |-> PyStr(t)]) : t \in {b_matrix, b_table}}

DataPayloads == {PyDict([data |-> a]) : a \in ArrayPayloads}

OtherPayloads ==
  <<PyDict([error |-> PyStr(<<"x">>)]),
    PyDict([response |-> PyDict([tsv |-> PyStr(b_matrix)])]),
    PyDict([results |-> PyNum(<<"1">>)])>>

\* Texts over the characters that decide how JSON decoding goes.
JsonChars == {"[", "]", "{", "}", "1", ",", " ", "x"}

JsonTexts == SeqsUpTo(JsonChars, MaxJsonLen)

CoerceKinds == {"tsv", "matrix", "raw", "json_auto", "xml"}

CoerceTexts(kind) ==
  CASE kind = "tsv" -> TsvTexts
    [] kind = "matrix" -> MatrixTexts
    [] OTHER -> JsonTexts

PaDone(fn, kind, arg, src, result) ==
  [phase |-> "done", fn |-> fn, kind |-> kind, arg |-> arg, src |-> src, result |-> result]

\* parsing.parse_tsv is applied to a text.
ApplyParseTsv ==
  /\ pa.phase = "idle"
  /\ \E text \in TsvTexts :
       pa' = PaDone("parsing.parse_tsv", "none", PyStr(text), None, parse_tsv(text))
  /\ UNCHANGED <<dvars, tk>>

\* parsing.parse_matrix is applied to a text.
ApplyParsingParseMatrix ==
  /\ pa.phase = "idle"
  /\ \E text \in MatrixTexts :
       pa' = PaDone("parsing.parse_matrix", "none", PyStr(text), None,
                    parsing_parse_matrix(text))
  /\ UNCHANGED <<dvars, tk>>

ParsersApplied(payload) ==
  pa' = PaDone("parsers.parse_matrix", "none", payload, None, parsers_parse_matrix(payload))

\* parsers.parse_matrix is applied to a text or a decoded payload.
ApplyParsersParseMatrix ==
  /\ pa.phase = "idle"
  /\ \/ \E t \in MatrixTexts : ParsersApplied(PyStr(t))
     \/ \E a \in ArrayPayloads : ParsersApplied(a)
     \/ \E d \in TextPayloads : ParsersApplied(d)
     \/ \E d \in DataPayloads : ParsersApplied(d)
     \/ \E i \in DOMAIN OtherPayloads : ParsersApplied(OtherPayloads[i])
  /\ UNCHANGED <<dvars, tk>>

\* What a mapping may hold under "matrix", under "data" and under "error":
\* nothing (0), a value the probe accepts (1), a value it passes over (2).
ProbeChoices == 0..2

\* A matrix text with one row and column, labelled l.
OneByOne(l) == <<"\t">> \o l \o <<"\n">> \o l \o <<"\t", "1">>

ProbeDict(m, d, e) ==
  PyDict([k \in {x \in {"matrix", "data", "error"} :
                   \/ x = "matrix" /\ m # 0
                   \/ x = "data" /\ d # 0
                   \/ x = "error" /\ e # 0} |->
            CASE k = "matrix" -> PyStr(IF m = 1 THEN OneByOne(<<"a">>) ELSE <<" ">>)
              [] k = "data" -> PyList(IF d = 1 THEN <<PyList(<<PyNum(<<"1">>)>>)>> ELSE <<>>)
              [] k = "error" -> PyStr(IF e = 1 THEN <<"x">> ELSE <<" ">>)])

\* parsers.parse_matrix is applied to a mapping that holds any of a matrix
\* text, an array and an error string.
ApplyParsersProbe ==
  /\ pa.phase = "idle"
  /\ \E m \in ProbeChoices, d \in ProbeChoices, e \in ProbeChoices :
       pa' = PaDone("parsers.parse_matrix", "probe", ProbeDict(m, d, e), None,
                    parsers_parse_matrix(ProbeDict(m, d, e)))
  /\ UNCHANGED <<dvars, tk>>

\* Keys a response mapping may use, and the keys that may wrap a mapping.
KeyInputs == {"matrix", "data", "result", "results", "output", "text", "tsv"}

WrapInputs == {"none", "response", "payload"}

\* A mapping that holds text t1 under k1 and text t2 under k2, inside the
\* wrapper key w if there is one.
KeyedDict(w, k1, t1, k2, t2) ==
  LET inner == PyDict([k \in {k1, k2} |-> PyStr(IF k = k1 THEN t1 ELSE t2)])
  IN IF w = "none" THEN inner ELSE PyDict([k \in {w} |-> inner])

\* parsers.parse_matrix is applied to a mapping that holds matrix texts
\* under one or two keys, at the top or under a wrapper key.
ApplyParsersKeyed ==
  /\ pa.phase = "idle"
  /\ \E w \in WrapInputs, k1 \in KeyInputs, k2 \in KeyInputs,
        t1 \in {OneByOne(<<"a">>), <<" ">>} :
       pa' = PaDone("parsers.parse_matrix", "keyed",
                    KeyedDict(w, k1, t1, k2, OneByOne(<<"b">>)),
                    Some([wrapper |-> w, keys |-> <<k1, k2>>,
                          texts |-> <<t1, OneByOne(<<"b">>)>>]),
                    parsers_parse_matrix(KeyedDict(w, k1, t1, k2, OneByOne(<<"b">>))))
  /\ UNCHANGED <<dvars, tk>>

\* parsers.parse_matrix is applied to the text written for a square matrix.
ApplyRoundTrip ==
  /\ pa.phase = "idle"
  /\ \E m \in SquareMatrices, how \in Layouts :
       LET text == Layout(to_tsv_lines(m), how)
       IN pa' = PaDone("roundtrip", how, PyStr(text), Some(m),
                       parsers_parse_matrix(PyStr(text)))
  /\ UNCHANGED <<dvars, tk>>

\* parsing.coerce_response is applied to a text and a kind.
ApplyCoerceResponse ==
  /\ pa.phase = "idle"
  /\ \E kind \in CoerceKinds :
       \E text \in CoerceTexts(kind) :
         pa' = PaDone("parsing.coerce_response", kind, PyStr(text), None,
                      coerce_response(text, kind))
  /\ UNCHANGED <<dvars, tk>>

\* Characters that separate identifiers in one string.
SepChars == {" ", ",", ";", "|", "+"}

\* Runs of one or two separators.
SepRuns == [1..1 -> SepChars] \cup [1..2 -> SepChars]

\* The identifiers of a generated input.
IdLists == UNION {[1..n -> {<<"a">>, <<"b">>}] : n \in 0..MaxIds}

\* The identifiers written as one string: separated by the runs seps, inside
\* the padding pad.
RECURSIVE Interleave(_, _)
Interleave(ids, seps) ==
  IF ids = <<>> THEN <<>>
  ELSE IF Len(ids) = 1 THEN ids[1]
  ELSE ids[1] \o seps[1] \o Interleave(Tail(ids), Tail(seps))

IdString(ids, seps, pad) == pad \o Interleave(ids, seps) \o pad

\* The identifiers written as a list: each inside the padding, and an empty
\* item at the end.
IdList(ids, pad) == [i \in 1..Len(ids) |-> pad \o ids[i] \o pad] \o <<pad>>

Normalizers == {"validators.normalize_snps", "ldmatrix._normalize_snps"}

Normalize(fn, snps) ==
  IF fn = "validators.normalize_snps" THEN normalize_snps(snps) ELSE _normalize_snps(snps)

\* An identifier normalizer is applied to identifiers written as one string.
ApplyNormalizeString ==
  /\ pa.phase = "idle"
  /\ \E fn \in Normalizers, ids \in IdLists, pad \in {<<>>, <<" ">>} :
       \E seps \in [1..(IF ids = <<>> THEN 1 ELSE Len(ids) - 1) -> SepRuns] :
         LET text == IF ids = <<>> THEN pad \o seps[1] ELSE IdString(ids, seps, pad)
         IN pa' = PaDone(fn, "str", PyStr(text), Some(ids), Normalize(fn, SV(text)))
  /\ UNCHANGED <<dvars, tk>>

\* An identifier normalizer is applied to identifiers written as a list.
ApplyNormalizeList ==
  /\ pa.phase = "idle"
  /\ \E fn \in Normalizers, ids \in IdLists, pad \in {<<>>, <<" ">>} :
       pa' = PaDone(fn, "list", PyList([i \in 1..(Len(ids) + 1) |-> PyStr(IdList(ids, pad)[i])]), Some(ids),
                    Normalize(fn, LV(IdList(ids, pad))))
  /\ UNCHANGED <<dvars, tk>>

ParseReset ==
  /\ pa.phase = "done"
  /\ pa' = PaIdle
  /\ UNCHANGED <<dvars, tk>>

NextParse ==
  \/ ApplyParseTsv
  \/ ApplyParsingParseMatrix
  \/ ApplyParsersParseMatrix
  \/ ApplyParsersProbe
  \/ ApplyParsersKeyed
  \/ ApplyRoundTrip
  \/ ApplyCoerceResponse
  \/ ApplyNormalizeString
  \/ ApplyNormalizeList
  \/ ParseReset

SpecParse == Init /\ [][NextParse]_vars

\* ------------------------------------------------------------------ claims

\* A thread is inside the transport-call region of http.request: it holds
\* the request lock, in the first attempt or in the IPv4 retry.
InHttpRegion(t) ==
  /\ req[t].dispatcher = "http"
  /\ pc[t] \in {"send", "wait", "ipv4_enter", "ipv4_exit", "release"}

\* The call of thread t has ended.
Done(t) == pc[t] = "done"

\* C1: at most one thread is inside the transport-call region of
\* http.request (first attempt or IPv4 retry) at any instant.
C1_HttpRegionExclusive ==
  \A a, b \in Threads : InHttpRegion(a) /\ InHttpRegion(b) => a = b

\* C1 witness: one caller is in flight in its IPv4 retry while another
\* caller of http.request waits for the lock.
C1_Witness ==
  \E a, b \in Threads :
    /\ a # b
    /\ InHttpRegion(a) /\ a \in inflight /\ Len(attempts[a]) = 2
    /\ req[b].dispatcher = "http" /\ pc[b] = "acquire"

\* C2: across all endpoint operations at most one transport call is in
\* flight at any instant.
C2_OneTransportInFlight == Cardinality(inflight) <= 1

\* C3: in http.request no call makes more than two transport attempts; a
\* second attempt is made only after the first raised a connection failure,
\* and runs under the IPv4-only policy; a call whose first attempt raised a
\* connection failure ends after exactly two attempts, with the retry's
\* response deciding the result, or, if the retry raised a connection failure
\* too, with one network error that embeds both failures.
C3_OneIPv4Retry ==
  \A t \in Threads :
    req[t].dispatcher = "http" =>
      /\ Len(attempts[t]) <= 2
      /\ Len(attempts[t]) = 2 =>
           /\ attempts[t][2] = "ipv4"
           /\ errs[t] # <<>>
           /\ errs[t][1] \in {"ConnectionError", "ConnectTimeout"}
      /\ Done(t) /\ errs[t] # <<>> /\ errs[t][1] \in {"ConnectionError", "ConnectTimeout"} =>
           /\ Len(attempts[t]) = 2
           /\ Len(errs[t]) = 1 =>
                /\ resp[t] # 0
                /\ outcome[t].cat # "network"
                /\ (resp[t] < 400 <=> outcome[t].status = "returned")
           /\ Len(errs[t]) = 2 /\ errs[t][2] \in {"ConnectionError", "ConnectTimeout"} =>
                /\ outcome[t].status = "raised"
                /\ outcome[t].cat = "network"
                /\ outcome[t].exc = "RuntimeError"
                /\ outcome[t].embeds = errs[t]

\* C3 witness: a call of http.request ended after two connection failures.
C3_Witness ==
  \E t \in Threads :
    /\ Done(t) /\ req[t].dispatcher = "http"
    /\ errs[t] = <<"ConnectionError", "ConnectionError">>
    /\ attempts[t] = <<"default", "ipv4">>

\* C4: in every endpoint operation a connection failure of the first
\* transport attempt is followed by exactly one retry under the IPv4-only
\* policy, and a second connection failure is reported with both errors.
C4_EveryEndpointRetriesOnce ==
  \A t \in Threads :
    Done(t) /\ errs[t] # <<>> /\ errs[t][1] = "ConnectionError" =>
      /\ Len(attempts[t]) = 2
      /\ attempts[t][2] = "ipv4"
      /\ Len(errs[t]) = 2 /\ errs[t][2] = "ConnectionError" => outcome[t].embeds = errs[t]

\* C5: once a response with status >= 400 has been received, the call makes
\* no further transport attempt and ends raising an API failure; this holds
\* also when the response came from the IPv4 retry.
C5_HttpErrorNeverRetried ==
  [][\A t \in Threads :
       resp[t] >= 400 =>
         /\ Len(attempts'[t]) <= Len(attempts[t])
         /\ pc'[t] \in {"ipv4_exit", "release", "done", "idle"}
         /\ pc'[t] = "done" => outcome'[t].status = "raised" /\ outcome'[t].cat = "api"]_vars

\* C5 witness: a call ended after its IPv4 retry returned status 400.
C5_Witness ==
  \E t \in Threads :
    /\ Done(t) /\ resp[t] = 400 /\ Len(attempts[t]) = 2
    /\ outcome[t].cat = "api"

\* C6 as claimed: in http.request every timeout-class failure (connect
\* timeout or read timeout) of the first attempt ends the call after exactly
\* one transport attempt.
C6_NoTimeoutRetried ==
  \A t \in Threads :
    req[t].dispatcher = "http" /\ errs[t] # <<>>
      /\ errs[t][1] \in {"ConnectTimeout", "ReadTimeout"} =>
        Len(attempts[t]) = 1

\* C6 amended: in http.request a read timeout of the first attempt ends the
\* call after exactly one transport attempt, raising the timeout itself; the
\* retry is taken exactly for the failures of the ConnectionError class, to
\* which connect timeouts belong.
C6_ReadTimeoutNotRetried ==
  \A t \in Threads :
    req[t].dispatcher = "http" /\ errs[t] # <<>> =>
      /\ errs[t][1] = "ReadTimeout" =>
           /\ Len(attempts[t]) = 1
           /\ pc[t] \in {"release", "done"}
           /\ Done(t) => outcome[t].status = "raised" /\ outcome[t].exc = "ReadTimeout"
      /\ errs[t][1] \in {"ConnectionError", "ConnectTimeout"} /\ Done(t) =>
           Len(attempts[t]) = 2

\* C6 witness: a call of http.request ended by a read timeout of its first
\* attempt.
C6_Witness ==
  \E t \in Threads :
    /\ Done(t) /\ req[t].dispatcher = "http"
    /\ errs[t] = <<"ReadTimeout">> /\ Len(attempts[t]) = 1

\* A value is, up to case and surrounding whitespace, one of the allowed
\* tokens.
Allowed(v, allowed) == lower(strip(v)) \in allowed

\* The pairs a call of ldpair names are well formed: exactly one input mode,
\* every pair two non-blank identifiers.
PairsWellFormed(inp) ==
  IF inp.snp_pairs.none
  THEN /\ ~inp.var1.none /\ strip(inp.var1.v) # <<>>
       /\ ~inp.var2.none /\ strip(inp.var2.v) # <<>>
  ELSE /\ inp.var1.none /\ inp.var2.none
       /\ inp.snp_pairs.v # <<>>
       /\ \A i \in 1..Len(inp.snp_pairs.v) :
            /\ Len(inp.snp_pairs.v[i]) = 2
            /\ strip(inp.snp_pairs.v[i][1]) # <<>>
            /\ strip(inp.snp_pairs.v[i][2]) # <<>>

\* The caller-supplied parameters of a call, the token aside, are all
\* acceptable.
WellFormed(inp) ==
  CASE inp.op = "ldproxy" ->
         /\ strip(inp.snp) # <<>>
         /\ Allowed(inp.genome_build, {s_grch37, s_grch38})
         /\ Allowed(inp.r2d, {s_r2, s_d})
         /\ inp.win_size > 0
         /\ IF inp.pop.isList THEN \E i \in 1..Len(inp.pop.l) : strip(inp.pop.l[i]) # <<>>
            ELSE strip(inp.pop.s) # <<>>
         /\ Allowed(inp.return_type, {s_dataframe, s_raw})
    [] inp.op = "ldmatrix" ->
         /\ IF inp.snps.isList THEN \E i \in 1..Len(inp.snps.l) : strip(inp.snps.l[i]) # <<>>
            ELSE \E i \in 1..Len(inp.snps.s) : inp.snps.s[i] \notin Whitespace \cup {","}
         /\ strip(inp.pop) # <<>>
         /\ Allowed(inp.genome_build, {s_grch37, s_grch38})
         /\ Allowed(inp.r2d, {s_r2, s_d})
         /\ Allowed(inp.return_type, {s_dataframe, s_raw})
         /\ Allowed(inp.request_method, {s_auto, s_get, s_post})
    [] inp.op = "ldpair" ->
         /\ Allowed(inp.genome_build, {s_grch37, s_grch38})
         /\ inp.output \in {s_table, s_text}
         /\ Allowed(inp.request_method, {s_auto, s_get, s_post})
         /\ PairsWellFormed(inp)
         /\ ~(lower(strip(inp.request_method)) = s_get /\ Len(inp.snp_pairs.v) > 1)
    [] inp.op = "request" -> TRUE
    [] OTHER -> FALSE

\* C7: an endpoint operation called with acceptable parameters, no explicit
\* token and no fallback token ends with a credential failure, and has made
\* no transport call.
C7_CredentialFailureBeforeTransport ==
  \A t \in Threads :
    /\ outcome[t].cat = "credential" => attempts[t] = <<>>
    /\ Done(t) /\ call[t].op \in {"ldproxy", "ldmatrix", "ldpair"} /\ WellFormed(call[t])
         /\ call[t].token.none /\ environ.none =>
           /\ outcome[t].status = "raised"
           /\ outcome[t].cat = "credential"
           /\ attempts[t] = <<>>

\* C8: a call that ends with a validation failure has made no transport
\* call.
C8_ValidationBeforeTransport ==
  \A t \in Threads : outcome[t].cat = "validation" => attempts[t] = <<>>

\* C9: every transport call in flight carries the resolved token as the
\* query parameter `token`, next to the query parameters its dispatcher was
\* given, which are unchanged.
C9_TokenInQuery ==
  \A t \in inflight :
    /\ ~req[t].params.none
    /\ "token" \in DOMAIN req[t].params.v
    /\ req[t].params.v["token"] = req[t].tok
    /\ ~req[t].given.none =>
         \A k \in DOMAIN req[t].given.v \ {"token"} :
           /\ k \in DOMAIN req[t].params.v
           /\ req[t].params.v[k] = req[t].given.v[k]

\* C10: token resolution returns the trimmed explicit token when one is
\* given, otherwise the trimmed fallback token, fails only if neither is
\* non-empty after trimming, and never returns an empty or whitespace-only
\* token.
C10_TokenResolution ==
  tk.phase = "done" =>
    LET explicit == ~tk.token.none /\ strip(tk.token.v) # <<>>
        fallback == ~tk.env.none /\ strip(tk.env.v) # <<>>
    IN /\ explicit => tk.result.ok /\ tk.result.val = strip(tk.token.v)
       /\ ~explicit /\ fallback => tk.result.ok /\ tk.result.val = strip(tk.env.v)
       /\ ~explicit /\ ~fallback => ~tk.result.ok
       /\ tk.result.ok => strip(tk.result.val) # <<>>

\* The number of identifiers a caller names: the non-blank elements of a
\* list, or the maximal runs of non-separator characters of a string.
IdCount(snps) ==
  IF snps.isList
  THEN Cardinality({i \in 1..Len(snps.l) : strip(snps.l[i]) # <<>>})
  ELSE LET Sep == Whitespace \cup {",", "\n", "\r"}
       IN Cardinality({i \in 1..Len(snps.s) :
                         /\ snps.s[i] \notin Sep
                         /\ (i = 1 \/ snps.s[i - 1] \in Sep)})

\* C11: ldmatrix with request_method 'auto' sends GET when the normalized
\* identifier list has at most 300 elements and POST when it has 301 or
\* more; an explicit 'get' or 'post' is the method sent whatever the length.
C11_AutoMethodThreshold ==
  \A t \in Threads :
    call[t].op = "ldmatrix" /\ req[t].dispatcher = "matrix" =>
      LET n == IdCount(call[t].snps)
          rm == lower(strip(call[t].request_method))
      IN /\ rm = s_auto /\ n <= 300 => req[t].method = "GET"
         /\ rm = s_auto /\ n >= 301 => req[t].method = "POST"
         /\ rm = s_get => req[t].method = "GET"
         /\ rm = s_post => req[t].method = "POST"

\* C11 witness: a call with 301 identifiers and 'auto' is in flight as a
\* POST.
C11_Witness ==
  \E t \in inflight :
    /\ call[t].op = "ldmatrix" /\ call[t].request_method = s_auto
    /\ IdCount(call[t].snps) = 301
    /\ req[t].method = "POST"

\* The keys under which ldmatrix and ldpair send their identifiers.
PayloadKeys == {"snps", "var1", "var2", "snp_pairs"}

\* The query parameters of a request carry identifiers.
QueryHasPayload(r) == ~r.params.none /\ DOMAIN r.params.v \cap PayloadKeys # {}

\* The JSON body of a request carries identifiers.
BodyHasPayload(r) == ~r.json.none /\ DOMAIN r.json.v \cap PayloadKeys # {}

\* C12: in every transport call of ldmatrix and ldpair exactly one of the
\* query parameters and the JSON body carries the identifiers: a GET call has
\* them in the query and has no body, a POST call has them in the body and
\* not in the query.
C12_PayloadInOnePlace ==
  \A t \in inflight :
    call[t].op \in {"ldmatrix", "ldpair"} =>
      /\ QueryHasPayload(req[t]) # BodyHasPayload(req[t])
      /\ req[t].method = "GET" => QueryHasPayload(req[t]) /\ req[t].json.none
      /\ req[t].method = "POST" => BodyHasPayload(req[t]) /\ ~QueryHasPayload(req[t])

\* C12 witness: a POST of ldmatrix is in flight with the identifiers in its
\* JSON body.
C12_Witness ==
  \E t \in inflight :
    /\ call[t].op = "ldmatrix" /\ req[t].method = "POST"
    /\ BodyHasPayload(req[t])

\* The number of pairs a call of ldpair names.
PairCount(inp) == IF inp.snp_pairs.none THEN 1 ELSE Len(inp.snp_pairs.v)

\* The parameters of a call of ldpair are acceptable up to the choice of the
\* method.
PairCallAccepted(inp) ==
  /\ Allowed(inp.genome_build, {s_grch37, s_grch38})
  /\ inp.output \in {s_table, s_text}
  /\ Allowed(inp.request_method, {s_auto, s_get, s_post})
  /\ PairsWellFormed(inp)

\* C13: ldpair with request_method 'auto' selects GET for exactly one pair
\* and POST for more than one pair, so that a GET request is built only for
\* one pair; request_method 'get' with more than one pair ends with a
\* validation error and no transport call.
C13_PairMethodSelection ==
  \A t \in Threads :
    call[t].op = "ldpair" /\ pc[t] # "idle" /\ PairCallAccepted(call[t]) =>
      LET n == PairCount(call[t])
          rm == lower(strip(call[t].request_method))
          chosen == select_method(rm, n > 1)
      IN /\ rm = s_auto /\ n = 1 => chosen = Ok("GET")
         /\ rm = s_auto /\ n > 1 => chosen = Ok("POST")
         /\ req[t].dispatcher # "none" =>
              /\ chosen = Ok(req[t].method)
              /\ req[t].method = "GET" => n = 1
         /\ rm = s_get /\ n > 1 =>
              /\ Done(t)
              /\ outcome[t].status = "raised"
              /\ outcome[t].cat = "validation"
              /\ attempts[t] = <<>>

\* C13 witness: a call with two pairs and request_method 'get' has ended.
C13_Witness ==
  \E t \in Threads :
    /\ Done(t) /\ call[t].op = "ldpair" /\ PairCallAccepted(call[t])
    /\ PairCount(call[t]) = 2
    /\ lower(strip(call[t].request_method)) = s_get
    /\ outcome[t].cat = "validation"

\* A call of ldpair names snp_pairs together with var1 or var2.
BothModes(inp) == ~inp.snp_pairs.none /\ (~inp.var1.none \/ ~inp.var2.none)

\* A call of ldpair names only one of var1 and var2.
HalfPair(inp) == inp.snp_pairs.none /\ (inp.var1.none # inp.var2.none)

\* A call of ldpair names an empty list of pairs.
EmptyPairs(inp) == ~inp.snp_pairs.none /\ inp.snp_pairs.v = <<>>

\* A call of ldpair names a pair that is not two non-empty identifiers.
BadPair(inp) ==
  IF inp.snp_pairs.none
  THEN /\ ~inp.var1.none /\ ~inp.var2.none
       /\ (strip(inp.var1.v) = <<>> \/ strip(inp.var2.v) = <<>>)
  ELSE \E i \in 1..Len(inp.snp_pairs.v) :
         \/ Len(inp.snp_pairs.v[i]) # 2
         \/ \E k \in 1..Len(inp.snp_pairs.v[i]) : strip(inp.snp_pairs.v[i][k]) = <<>>

\* C15: a call of ldpair that names snp_pairs together with var1 or var2,
\* only one of var1 and var2, an empty snp_pairs list, or a pair that is not
\* exactly two non-empty identifiers ends with a validation error and no
\* transport call; a call in exactly one input mode with well-formed pairs
\* and otherwise acceptable parameters does not end with a validation error
\* (unless it asks for GET with several pairs).
C15_OneInputMode ==
  \A t \in Threads :
    call[t].op = "ldpair" /\ pc[t] # "idle" =>
      /\ BothModes(call[t]) \/ HalfPair(call[t]) \/ EmptyPairs(call[t]) \/ BadPair(call[t]) =>
           /\ Done(t)
           /\ outcome[t].status = "raised"
           /\ outcome[t].cat = "validation"
           /\ attempts[t] = <<>>
      /\ /\ PairCallAccepted(call[t])
         /\ ~(lower(strip(call[t].request_method)) = s_get /\ PairCount(call[t]) > 1)
         => outcome[t].cat # "validation"

\* C15 witness: a call that named snp_pairs together with var1 has ended
\* with a validation error, its other parameters being acceptable.
C15_Witness ==
  \E t \in Threads :
    /\ Done(t) /\ call[t].op = "ldpair"
    /\ BothModes(call[t]) /\ ~EmptyPairs(call[t]) /\ ~BadPair(call[t])
    /\ Allowed(call[t].genome_build, {s_grch37, s_grch38})
    /\ call[t].output \in {s_table, s_text}
    /\ Allowed(call[t].request_method, {s_auto, s_post})
    /\ outcome[t].cat = "validation"

\* C14: a call of ldpair with more than one pair (and parameters ldpair
\* accepts) gets past the call of the dispatcher, never returns a table, and
\* returns the decoded mapping or sequence whenever the response body is JSON
\* text, whatever the requested output.
C14_MultiPairReturnsJson ==
  \A t \in Threads :
    /\ Done(t) /\ call[t].op = "ldpair" /\ PairCallAccepted(call[t])
    /\ PairCount(call[t]) > 1
    /\ lower(strip(call[t].request_method)) # s_get
    => /\ outcome[t].cat # "call"
       /\ outcome[t].status = "returned" =>
            /\ outcome[t].val.kind # "table"
            /\ is_json_response(body[t]) /\ json_loads(body[t]).ok =>
                 outcome[t].val.kind \in {"dict", "list"}

\* The dispatcher of thread t received a response with a success status.
GotSuccess(t) == pending[t] = "none" /\ resp[t] \in 200..299

\* C16: a call of ldpair for exactly one pair sent by GET that received a
\* response with a success status returns the raw response text when output
\* is 'text' and a table when output is 'table', whatever the body.
C16_SinglePairGetOutput ==
  \A t \in Threads :
    /\ Done(t) /\ call[t].op = "ldpair"
    /\ req[t].dispatcher = "http" /\ req[t].method = "GET"
    /\ GotSuccess(t)
    => /\ outcome[t].status = "returned"
       /\ call[t].output = s_text =>
            outcome[t].val.kind = "str" /\ outcome[t].val.v = body[t]
       /\ call[t].output = s_table => outcome[t].val.kind = "table"

\* A matrix parsing entry point has been applied to an input.
MatrixParsed ==
  /\ pa.phase = "done"
  /\ \/ pa.fn \in {"parsers.parse_matrix", "parsing.parse_matrix", "roundtrip"}
     \/ pa.fn = "parsing.coerce_response" /\ pa.kind = "matrix"

\* C17: no matrix parsing entry point (parsers.parse_matrix,
\* parsing.parse_matrix, coerce_response with kind 'matrix') returns a table
\* whose row count differs from its column count.
C17_NeverNonSquare ==
  (MatrixParsed /\ pa.result.ok) =>
    /\ pa.result.val.kind = "table"
    /\ shape(pa.result.val.v)[1] = shape(pa.result.val.v)[2]

\* C18: parsing with parsers.parse_matrix the text written for a square
\* matrix of labelled rows and columns and numeric cells gives a table with
\* the matrix's labels on the rows and on the columns, in order, and its
\* cells, whatever blank lines lie before, between or after the lines.
C18_MatrixRoundTrip ==
  (pa.phase = "done" /\ pa.fn = "roundtrip") =>
    /\ pa.result.ok
    /\ pa.result.val.kind = "table"
    /\ pa.result.val.v.index = Some(pa.src.v.labels)
    /\ pa.result.val.v.columns = pa.src.v.labels
    /\ pa.result.val.v.rows = pa.src.v.cells

\* The tokens of a line: its tab-separated fields, stripped, the empty ones
\* left out.
Tokens(line) == StripNonBlank(Fields(line))

\* Every token of the line matches the numeric-literal pattern.
AllNumeric(line) == \A i \in DOMAIN Tokens(line) : _NUMERIC_TOKEN_RE(Tokens(line)[i])

StartsLikeJson(text) ==
  \E i \in 1..Len(text) :
    /\ text[i] \in {"{", "["}
    /\ \A j \in 1..(i - 1) : text[j] \in Whitespace

\* coerce_response has been applied with kind 'json_auto'.
JsonAutoDone ==
  pa.phase = "done" /\ pa.fn = "parsing.coerce_response" /\ pa.kind = "json_auto"

\* C20: coerce_response with kind 'json_auto' returns the decoded value of
\* a text that starts like JSON and decodes, returns a text that does not
\* start like JSON unchanged, and fails with ParseError on a text that
\* starts like JSON and does not decode.
C20_JsonAuto ==
  JsonAutoDone =>
    LET text == pa.arg.v
        decoded == json_loads(text)
    IN IF ~StartsLikeJson(text)
         THEN pa.result.ok /\ pa.result.val.kind = "str" /\ pa.result.val.v = text
       ELSE IF decoded.ok
         THEN /\ pa.result.ok
              /\ pa.result.val.kind = decoded.val.kind
              /\ pa.result.val.v = decoded.val.v
       ELSE ~pa.result.ok /\ pa.result.exc = "ParseError"

\* Text that starts like JSON and does not decode has been refused.
C20_Witness ==
  /\ JsonAutoDone
  /\ StartsLikeJson(pa.arg.v)
  /\ ~json_loads(pa.arg.v).ok
  /\ ~pa.result.ok

\* An identifier normalizer has been applied to an input that holds at least
\* one identifier.
Normalized == pa.phase = "done" /\ pa.fn \in Normalizers /\ pa.src.v # <<>>

\* C21: validators.normalize_snps and ldmatrix's normalizer give the same
\* list, the identifiers in their order with their repetitions, whether the
\* identifiers come as one string separated by runs of whitespace, comma,
\* semicolon, pipe or plus, or as a list.
C21_NormalizersAgree == Normalized => pa.result = Ok(pa.src.v)

\* The identifiers of a query string joined by "+" are none, or one of them
\* is blank.
BlankInQuery(g) ==
  \E i \in 0..Len(g) :
    /\ i = 0 \/ g[i] = "+"
    /\ ~\E j \in (i + 1)..Len(g) :
          /\ g[j] \notin Whitespace \cup {"+"}
          /\ \A k \in (i + 1)..(j - 1) : g[k] \in Whitespace

\* The identifiers of a list are none, or one of them is blank.
BlankInList(l) == l = <<>> \/ \E i \in 1..Len(l) : strip(l[i]) = <<>>

\* The number of identifiers an input holds: the non-blank items of a list,
\* the pieces of a string between runs of whitespace, comma, semicolon, pipe
\* and plus.
Identifiers(snps) ==
  IF snps.isList
  THEN Cardinality({i \in 1..Len(snps.l) : strip(snps.l[i]) # <<>>})
  ELSE LET Sep == Whitespace \cup {",", ";", "|", "+"}
       IN Cardinality({i \in 1..Len(snps.s) :
                         /\ snps.s[i] \notin Sep
                         /\ (i = 1 \/ snps.s[i - 1] \in Sep)})

\* C22: no transport call of ldmatrix carries an empty identifier list or a
\* blank identifier, in the query or in the body; a call whose input leaves
\* no identifier ends with a validation error and no transport call.
C22_NoEmptyIdentifiers ==
  \A t \in Threads :
    call[t].op = "ldmatrix" =>
      /\ t \in inflight =>
           /\ ~req[t].params.none => ~BlankInQuery(req[t].params.v.snps)
           /\ ~req[t].json.none => ~BlankInList(req[t].json.v.snps)
      /\ pc[t] # "idle" /\ Identifiers(call[t].snps) = 0 =>
           /\ Done(t)
           /\ outcome[t].status = "raised"
           /\ outcome[t].cat = "validation"
           /\ attempts[t] = <<>>

\* The parameters a request carries: its query or its JSON body.
Payload(r) == IF ~r.params.none THEN r.params.v ELSE r.json.v

\* C23: the genome build and the LD measure in every transport call of
\* ldproxy, ldmatrix and ldpair are the canonical lowercase tokens.
C23_CanonicalChoices ==
  \A t \in inflight :
    call[t].op \in {"ldproxy", "ldmatrix", "ldpair"} =>
      LET p == Payload(req[t])
      IN /\ p.genome_build \in {s_grch37, s_grch38}
         /\ "r2_d" \in DOMAIN p => p.r2_d \in {s_r2, s_d}

\* The call of thread t hands on what its dispatcher returns or raises:
\* a direct call of http.request, or ldproxy and ldmatrix asked for the raw
\* response.
HandsOn(t) ==
  \/ call[t].op = "request"
  \/ call[t].op \in {"ldproxy", "ldmatrix"} /\ lower(strip(call[t].return_type)) = s_raw

\* The dispatcher of thread t got a response from the transport.
Answered(t) == Done(t) /\ attempts[t] # <<>> /\ pending[t] = "none"

\* C24: every dispatcher returns on a response with a 2xx status and fails
\* on a response with a status of 400 or more.
C24_StatusClasses ==
  \A t \in Threads :
    HandsOn(t) /\ Answered(t) =>
      /\ resp[t] \in 200..299 => outcome[t].status = "returned"
      /\ resp[t] >= 400 => outcome[t].status = "raised" /\ outcome[t].cat = "api"

\* parsers.parse_matrix has been applied to a mapping that may hold a
\* matrix text, an array and an error string.
Probed == pa.phase = "done" /\ pa.fn = "parsers.parse_matrix" /\ pa.kind = "probe"

\* The mapping holds a non-blank string under key.
HoldsText(d, key) == key \in DOMAIN d /\ d[key].kind = "str" /\ strip(d[key].v) # <<>>

\* The mapping holds a non-empty list under key.
HoldsArray(d, key) == key \in DOMAIN d /\ d[key].kind = "list" /\ d[key].v # <<>>

\* The call failed with the report of an error payload.
ErrorReported ==
  /\ ~pa.result.ok /\ pa.result.exc = "ValueError"
  /\ pa.result.msg = "LDlink returned an error payload"

\* C25: parsers.parse_matrix probes text, then array, then error message:
\* a mapping with matrix text is parsed from the text whatever else it
\* holds, one without text and with an array is parsed from the array, an
\* error string is reported only when there is neither, and a mapping with
\* none of the three is an unsupported payload.
C25_ProbeOrder ==
  Probed =>
    LET d == pa.arg.v
    IN IF HoldsText(d, "matrix")
         THEN /\ pa.result.ok
              /\ pa.result.val.v.index = Some(<<<<"a">>>>)
       ELSE IF HoldsArray(d, "data")
         THEN /\ pa.result.ok
              /\ pa.result.val.v.index = Some(<<<<"0">>>>)
       ELSE IF HoldsText(d, "error") THEN ErrorReported
       ELSE ~pa.result.ok /\ pa.result.exc = "TypeError"

\* C25 witness: a mapping that holds both matrix text and an error string
\* has been parsed as a matrix.
C25_Witness ==
  /\ Probed
  /\ HoldsText(pa.arg.v, "matrix") /\ HoldsText(pa.arg.v, "error")
  /\ pa.result.ok

\* The keys under which matrix text is looked for, in their order.
SevenKeys == <<"matrix", "data", "result", "results", "output", "text", "tsv">>

\* The position of a key in the order.
KeyRank(k) == CHOOSE i \in DOMAIN SevenKeys : SevenKeys[i] = k

\* The texts of the mapping that are not blank: the first one, and the
\* second one when it has a key of its own.
HeldTexts(src) ==
  {i \in 1..2 : strip(src.texts[i]) # <<>> /\ (i = 2 => src.keys[1] # src.keys[2])}

\* The text under the first of the two keys, in the order of the seven keys,
\* that holds a non-blank string.
FirstText(src) ==
  LET i == CHOOSE x \in HeldTexts(src) :
             \A y \in HeldTexts(src) : KeyRank(src.keys[x]) <= KeyRank(src.keys[y])
  IN src.texts[i]

\* C26: matrix text is taken from the first of the seven keys that holds a
\* non-blank string, at the top level of a mapping and one level down under
\* the wrapper keys response and payload alike; a mapping with no such key
\* is an unsupported payload.
C26_TextKeys ==
  (pa.phase = "done" /\ pa.fn = "parsers.parse_matrix" /\ pa.kind = "keyed") =>
    IF HeldTexts(pa.src.v) = {} THEN ~pa.result.ok /\ pa.result.exc = "TypeError"
    ELSE /\ pa.result.ok
         /\ pa.result.val.v = _parse_tsv_matrix(FirstText(pa.src.v)).val.v

\* C27: a direct call of http.request that got a response with a status
\* below 400 returns: the decoded value of a body that starts with '{' or
\* '[' and decodes, the text of a body that starts so and does not decode,
\* and the text of any other body.
C27_DecodingNeverFails ==
  \A t \in Threads :
    call[t].op = "request" /\ Answered(t) /\ resp[t] < 400 =>
      LET decoded == json_loads(body[t])
          val == outcome[t].val
      IN /\ outcome[t].status = "returned"
         /\ IF StartsLikeJson(body[t]) /\ decoded.ok
            THEN val.kind = decoded.val.kind /\ val.v = decoded.val.v
            ELSE val.kind = "str" /\ val.v = body[t]

\* C27 witness: a direct call has returned the text of a body that starts
\* like JSON and does not decode.
C27_Witness ==
  \E t \in Threads :
    /\ call[t].op = "request" /\ Answered(t) /\ resp[t] < 400
    /\ StartsLikeJson(body[t]) /\ ~json_loads(body[t]).ok
    /\ outcome[t].status = "returned"
    /\ outcome[t].val.kind = "str"

\* Thread t is inside the IPv4 retry of http.request: between the entry and
\* the exit of _force_ipv4_only.
InRetry(t) ==
  /\ req[t].dispatcher = "http"
  /\ \/ pc[t] = "send" /\ Len(attempts[t]) = 1
     \/ pc[t] = "wait" /\ Len(attempts[t]) = 2
     \/ pc[t] = "ipv4_exit"

\* C28: only the second attempt of a call of http.request starts under the
\* IPv4-only policy: every first attempt and every transport call of the
\* other dispatchers starts under the original policy, and the original
\* policy is in force whenever no thread is inside a retry.
C28_IPv4OnlyInRetry ==
  /\ \A t \in Threads : \A i \in DOMAIN attempts[t] :
       attempts[t][i] = "ipv4" => req[t].dispatcher = "http" /\ i = 2
  /\ (\A t \in Threads : ~InRetry(t)) => gai = "default"

C30_PairCallsReachTransport ==
  \A t \in Threads :
    /\ Done(t) /\ call[t].op = "ldpair" /\ PairCallAccepted(call[t])
    /\ ~(lower(strip(call[t].request_method)) = s_get /\ PairCount(call[t]) > 1)
    => /\ outcome[t].cat # "call"
       /\ outcome[t].cat # "credential" =>
            /\ attempts[t] # <<>>
            /\ req[t].method = "GET" =>
                 ~req[t].params.none /\ {"var1", "var2"} \subseteq DOMAIN req[t].params.v
            /\ req[t].method = "POST" =>
                 ~req[t].json.none /\ "snp_pairs" \in DOMAIN req[t].json.v

====
